---- MODULE Spec2Model ----
(***************************************************************************)
(* Model of the conversation orchestration engine of                       *)
(* synthetic_depression_datagen: the turn-budget planner, the decision     *)
(* parsers of generation/manager_logic.py and the dialogue loop of         *)
(* run_patient_doctor_session (generation/session_runner.py).              *)
(*                                                                         *)
(* LLM calls are inputs: every call returns one text out of a small set of *)
(* texts (DoctorManagerOutputs, PostDsmManagerOutputs,                      *)
(* PatientManagerOutputs).  A text is modelled by what json.loads makes of *)
(* it: not JSON, a JSON value that is not an object, or an object (a       *)
(* function from its keys to its values).  JSON values are strings here;   *)
(* JsonNumber and JsonNull stand for a value that is not a Python str.     *)
(*                                                                         *)
(* The locals of one loop iteration that every branch assigns before it    *)
(* reads them (the manager's output, reason, doctor_instruction,           *)
(* next_action) are dropped by the step that follows their last read, so   *)
(* that states that differ only in dead values coincide.  dsm_symptom_key  *)
(* is never dropped: a POST_DSM turn reads the value of an earlier turn.   *)
(***************************************************************************)
EXTENDS Integers, Sequences, FiniteSets, TLC

VARIABLES
    pc,                    \* position in run_patient_doctor_session
    pacing,                \* doctor_microstyle["pacing"]
    doctor_persona_id,     \* doctor_persona_id
    disclosure_state,      \* disclosure_state
    conversation_history,  \* conversation_history (role and kind of content)
    dsm_pool,              \* dsm_pool
    asked_question_order,  \* asked_question_order
    doctor_turns_elapsed,  \* doctor_turns_elapsed
    iterations,            \* number of loop iterations started (observer)
    manager_type,          \* mode of the running iteration
    manager_output,        \* final_output of a doctor-manager call, until it is parsed
    next_action,           \* next_action
    dsm_symptom_key,       \* dsm_symptom_key
    reason,                \* reason
    doctor_instruction,    \* doctor_instruction
    exit_reason,           \* how the loop was left
    patient_guidance,      \* patient_guidance, as far as the session state reads it
    call                   \* a call of a pure function: its inputs and its result

vars == << pc, pacing, doctor_persona_id, disclosure_state,
           conversation_history, dsm_pool, asked_question_order,
           doctor_turns_elapsed, iterations, manager_type,
           manager_output, next_action, reason, dsm_symptom_key,
           doctor_instruction, exit_reason, patient_guidance, call >>

----------------------------------------------------------------------------
(* Bounds of the model *)

\* how many times a session may ask an item other than the head of dsm_pool
MaxOutOfOrder == 1

\* how many recorded decisions of a followed session may name a key that is
\* not pending
MaxInvalidKeys == 1

\* longest payload, in pieces, that is wrapped in a fence
MaxPayloadLen == 3

\* the seeds of the random generator are 0..MaxSeed
MaxSeed == 3

\* the profiles generated draw by draw are those of the first MaxTemplate
\* templates
MaxTemplate == 2

\* --num-sessions is 1..MaxSessions
MaxSessions == 2

----------------------------------------------------------------------------
(* data/questionnaire.py and config.py *)

DSM_ITEMS ==
    << "Depressed mood",
       "Loss of interest or pleasure",
       "Significant weight/appetite changes",
       "Sleep disturbances",
       "Psychomotor agitation or retardation",
       "Fatigue or loss of energy",
       "Feelings of worthlessness or excessive guilt",
       "Difficulty concentrating or indecisiveness",
       "Recurrent thoughts of death or suicide" >>

NUM_DSM_ITEMS == 9

BUFFER_TURNS == 5

EXTENDED_PACING_PERSONAS == {"very_warm_chatty", "trauma_informed_slow"}

\* PACING_TARGETS, in halves of a turn (1.5, 2.0, 2.5 are 3, 4, 5 halves);
\* .get(microstyle_pacing, 2.0) gives 4 halves for an unknown pacing
PACING_TARGETS(p) ==
    CASE p = "brisk" -> 3
      [] p = "med"   -> 4
      [] p = "slow"  -> 5
      [] OTHER       -> 4

Pacings == {"slow", "med", "brisk"}

PersonaIds == {"warm_validating", "trauma_informed_slow"}

----------------------------------------------------------------------------
(* Turn-budget planner, session_runner.py 626-641 *)

Min(a, b) == IF a < b THEN a ELSE b

Max(a, b) == IF a > b THEN a ELSE b

\* rounding of the halves down
CeilHalves_Floor(h) == h \div 2

\* math.ceil(h / 2) for a number of halves h >= 0
CeilHalves(h) == (h + 1) \div 2

\* target_turns_per_symptom, in halves
target_turns_per_symptom(p, persona) ==
    IF persona \in EXTENDED_PACING_PERSONAS
    THEN Min(PACING_TARGETS(p) + 1, 6)
    ELSE PACING_TARGETS(p)

base_turn_budget(p, persona) ==
    CeilHalves(target_turns_per_symptom(p, persona) * NUM_DSM_ITEMS)

MaxDoctorTurns(p, persona) == base_turn_budget(p, persona) + BUFFER_TURNS + 1

DsmTurnBudget(p, persona) == base_turn_budget(p, persona)

max_doctor_turns == MaxDoctorTurns(pacing, doctor_persona_id)

dsm_turn_budget == DsmTurnBudget(pacing, doctor_persona_id)

----------------------------------------------------------------------------
(* Sequences *)

Range(s) == {s[i] : i \in 1..Len(s)}

\* a removal of the head, whatever x is
ListRemove_Head(s, x) == SubSeq(s, 2, Len(s))

\* list.remove(x): removes the first occurrence of x
ListRemove(s, x) ==
    LET i == CHOOSE k \in 1..Len(s) :
                 s[k] = x /\ \A j \in 1..(k - 1) : s[j] # x
    IN  SubSeq(s, 1, i - 1) \o SubSeq(s, i + 1, Len(s))

----------------------------------------------------------------------------
(* init_disclosure_state, session_runner.py 359-385 *)

TrustLevels == {"guarded", "neutral", "open"}

VerbosityLevels == {"terse", "moderate", "detailed"}

\* an open patient who starts OPEN whatever the verbosity
init_disclosure_state_TrustFirst(trust, verbosity) ==
    IF trust = "guarded" THEN "MINIMIZE"
    ELSE IF trust = "open" THEN "OPEN"
    ELSE IF verbosity = "terse" THEN "MINIMIZE"
    ELSE "PARTIAL"

init_disclosure_state(trust, verbosity) ==
    IF trust = "guarded" \/ verbosity = "terse" THEN "MINIMIZE"
    ELSE IF trust = "open" /\ verbosity \in {"moderate", "detailed"} THEN "OPEN"
    ELSE "PARTIAL"

----------------------------------------------------------------------------
(* What json.loads makes of a manager's text.                              *)

\* a JSON value that is not a Python str and is truthy (a number such as 5)
JsonNumber == "<json number>"

\* the JSON value null (None: not a str, falsy)
JsonNull == "<json null>"

\* a string of white space only
Blank == "   "

IsStr(v) == v \notin {JsonNumber, JsonNull}

\* Python truth value of a JSON value
Truthy(v) == v \notin {"", JsonNull}

\* str.strip() of the strings of the model
Strip(v) == IF v = Blank THEN "" ELSE v

\* text that json.loads rejects (json.JSONDecodeError)
NotJson == [kind |-> "not_json"]

\* valid JSON that is not an object: a list, a number, a string, null
NonObject == [kind |-> "non_object"]

\* a JSON object; obj is the dict json.loads returns
Object(o) == [kind |-> "object", obj |-> o]

\* dict.get(k, d)
Get(o, k, d) == IF k \in DOMAIN o THEN o[k] ELSE d

NoOutput == [kind |-> "none"]

\* no guidance yet: patient_guidance is assigned by the first guidance step
NoGuidance == [disclosure_stage |-> ""]

\* no pure-function call under way
NoCall == [fn |-> "none"]

----------------------------------------------------------------------------
(* The text of an LLM output, as far as the parsers look at it: a sequence *)
(* of pieces.  A piece is the fence marker (three backquotes), the word    *)
(* json, white space (blanks and line breaks), a complete JSON document,   *)
(* or other text.                                                          *)

Fence == [t |-> "fence"]

WordJson == [t |-> "json"]

Ws == [t |-> "ws"]

Junk == [t |-> "junk"]

\* the text of a JSON document that json.loads turns into v
JsonDoc(v) == [t |-> "doc", v |-> v]

RECURSIVE lstrip(_)
lstrip(text) ==
    IF text # << >> /\ Head(text).t = "ws" THEN lstrip(Tail(text)) ELSE text

RECURSIVE rstrip(_)
rstrip(text) ==
    IF text # << >> /\ text[Len(text)].t = "ws"
    THEN rstrip(SubSeq(text, 1, Len(text) - 1))
    ELSE text

\* str.strip()
strip(text) == rstrip(lstrip(text))

\* str.startswith, for a prefix given as pieces
startswith(text, prefix) ==
    /\ Len(text) >= Len(prefix)
    /\ \A i \in 1..Len(prefix) : text[i].t = prefix[i].t

\* str.endswith of the fence marker
endswith_fence(text) == text # << >> /\ text[Len(text)].t = Fence.t

\* fence stripping that knows the bare fence marker only
StripCodeFences_NoJsonTag(text) ==
    LET c0 == strip(text)
        c2 == IF startswith(c0, << Fence >>) THEN Tail(c0) ELSE c0
        c3 == IF endswith_fence(c2) THEN SubSeq(c2, 1, Len(c2) - 1) ELSE c2
    IN  strip(c3)

\* manager_logic.py 116-123, 269-276, 370-378; background_writer.py 276-283
StripCodeFences(text) ==
    LET c0 == strip(text)
        c1 == IF startswith(c0, << Fence, WordJson >>)
              THEN SubSeq(c0, 3, Len(c0)) ELSE c0
        c2 == IF startswith(c1, << Fence >>) THEN Tail(c1) ELSE c1
        c3 == IF endswith_fence(c2) THEN SubSeq(c2, 1, Len(c2) - 1) ELSE c2
    IN  strip(c3)

\* json.loads: a value for the text of one JSON document, JSONDecodeError
\* (NotJson) for every other text
json_loads(text) ==
    IF Len(text) = 1 /\ text[1].t = "doc" THEN text[1].v ELSE NotJson

\* what a parser loads from an output text
LoadCleaned(text) == json_loads(StripCodeFences(text))

----------------------------------------------------------------------------
(* parse_doctor_manager_output, manager_logic.py 94-164.                   *)
(* choice is the outcome of random.choice(dsm_symptom_keys).               *)

Raised ==
    [raised |-> TRUE, next_action |-> "", reason |-> "",
     doctor_instruction |-> "", dsm_symptom_key |-> ""]

Decision(a, r, i, k) ==
    [raised |-> FALSE, next_action |-> a, reason |-> r,
     doctor_instruction |-> i, dsm_symptom_key |-> k]

\* lines 131-138
DoctorInstructionDefault(action, key) ==
    IF action = "DSM"
    THEN "Transition naturally to asking about "
             \o (IF Truthy(key) THEN key ELSE "the next symptom area") \o "."
    ELSE IF action = "FOLLOW_UP"
    THEN "Follow up on what the patient just said."
    ELSE "Connect with the patient as a person."

parse_doctor_manager_output(out, dsm_symptom_keys, choice) ==
    IF out.kind = "not_json"
    THEN \* except json.JSONDecodeError, lines 147-164
         IF dsm_symptom_keys # << >>
         THEN Decision("DSM",
                       "Doctor manager returned invalid JSON, using fallback",
                       "Ask about " \o choice \o ".", choice)
         ELSE Decision("FOLLOW_UP",
                       "Doctor manager returned invalid JSON, using follow-up fallback",
                       "Follow up on what the patient just said.", "")
    ELSE IF out.kind = "non_object"
    THEN \* manager_decision.get: AttributeError, not caught
         Raised
    ELSE LET action == Get(out.obj, "next_action", "DSM")
             why    == Get(out.obj, "reason", "")
             got    == Get(out.obj, "doctor_instruction", "")
             instr  == IF Truthy(got) THEN got ELSE ""
             key    == Get(out.obj, "dsm_symptom_key", "")
         IN  IF ~IsStr(instr)
             THEN \* doctor_instruction.strip(): AttributeError, not caught
                  Raised
             ELSE Decision(action, why,
                           IF Strip(instr) = ""
                           THEN DoctorInstructionDefault(action, key)
                           ELSE instr,
                           key)

----------------------------------------------------------------------------
(* parse_post_dsm_manager_output, manager_logic.py 250-304 *)

\* lines 283-290
PostDsmInstructionDefault(action) ==
    IF action = "END" THEN "Wrap up the visit warmly."
    ELSE IF action = "FOLLOW_UP"
    THEN "Follow up on what the patient just said."
    ELSE "Respond with empathy."

\* a fallback that keeps the visit going
PostDsmFallback_FollowUp ==
    Decision("FOLLOW_UP",
             "Post-DSM manager returned invalid JSON, defaulting to END",
             "Follow up on what the patient just said.", "")

\* lines 298-304: except json.JSONDecodeError
PostDsmFallback ==
    Decision("END",
             "Post-DSM manager returned invalid JSON, defaulting to END",
             "Wrap up the visit warmly.", "")

parse_post_dsm_manager_output(out) ==
    IF out.kind = "not_json"
    THEN PostDsmFallback
    ELSE IF out.kind = "non_object"
    THEN Raised
    ELSE LET action == Get(out.obj, "next_action", "END")
             why    == Get(out.obj, "reason", "")
             got    == Get(out.obj, "doctor_instruction", "")
             instr  == IF Truthy(got) THEN got ELSE ""
         IN  IF ~IsStr(instr)
             THEN Raised
             ELSE Decision(action, why,
                           IF Strip(instr) = ""
                           THEN PostDsmInstructionDefault(action)
                           ELSE instr,
                           "")

----------------------------------------------------------------------------
(* parse_patient_manager_output, manager_logic.py 307-397 *)

GuidanceFields ==
    {"directness", "disclosure_stage", "target_length", "emotional_state",
     "tone_tags", "key_points_to_reveal", "key_points_to_avoid",
     "patient_instruction"}

\* lines 342-348
default_length(verbosity) ==
    IF verbosity = "terse" THEN "SHORT"
    ELSE IF verbosity = "detailed" THEN "LONG"
    ELSE "MEDIUM"

\* lines 350-356
default_directness(trust) ==
    IF trust = "guarded" THEN "LOW"
    ELSE IF trust = "open" THEN "HIGH"
    ELSE "MED"

\* lines 357-366: defaults
GuidanceDefaults(trust, verbosity, current_disclosure_state) ==
    [directness           |-> default_directness(trust),
     disclosure_stage     |-> current_disclosure_state,
     target_length        |-> default_length(verbosity),
     emotional_state      |-> "neutral",
     tone_tags            |-> << "cooperative" >>,
     key_points_to_reveal |-> << >>,
     key_points_to_avoid  |-> << >>,
     patient_instruction  |->
         "Answer in a way consistent with your profile, moderately direct, and do not overshare."]

\* the call raised: AttributeError, not caught
GuidanceRaised == [raised |-> TRUE]

\* a returned guidance dict
Guidance(fields) == [raised |-> FALSE, fields |-> fields]

\* out is what json.loads makes of the cleaned text
parse_patient_manager_output(out, trust, verbosity, current_disclosure_state) ==
    LET defaults == GuidanceDefaults(trust, verbosity, current_disclosure_state)
    IN  IF out.kind = "not_json"
        THEN \* except (json.JSONDecodeError, ValueError): return defaults
             Guidance(defaults)
        ELSE IF out.kind = "non_object"
        THEN \* parsed.get: AttributeError, not caught
             GuidanceRaised
        ELSE \* lines 382-391: parsed.get(field, defaults[field])
             Guidance([f \in GuidanceFields |-> Get(out.obj, f, defaults[f])])

----------------------------------------------------------------------------
(* parse_background_writer_output and call_background_writer,              *)
(* background_writer.py 260-310 and 313-412                                *)

\* a JSON array with the given items
JsonArray(items) == [json |-> "array", items |-> items]

\* a JSON value that cannot be iterated over (null, a number)
JsonScalar == [json |-> "scalar"]

\* data/life_background.py: LifeFacet
LifeFacet(category, salience, description) ==
    [category |-> category, salience |-> salience, description |-> description]

\* data/life_background.py: PatientLifeBackground
PatientLifeBackground(name, age_range, pronouns, core_roles, core_relationships, core_stressor_summary, life_facets) ==
    [kind |-> "background", name |-> name, age_range |-> age_range,
     pronouns |-> pronouns, core_roles |-> core_roles,
     core_relationships |-> core_relationships,
     core_stressor_summary |-> core_stressor_summary,
     life_facets |-> life_facets]

\* return None
BackgroundNone == [kind |-> "none"]

\* an exception that the except clause of the parser does not name
BackgroundRaised == [kind |-> "raised"]

parse_background_writer_output(out) ==
    IF out.kind = "not_json"
    THEN \* except json.JSONDecodeError
         BackgroundNone
    ELSE IF out.kind = "non_object"
    THEN \* data.get: AttributeError, not in the except clause
         BackgroundRaised
    ELSE LET facets == Get(out.obj, "life_facets", JsonArray(<< >>))
         IN  IF facets.json # "array"
             THEN \* for facet_data in ...: TypeError
                  BackgroundNone
             ELSE PatientLifeBackground(
                      Get(out.obj, "name", "Patient"),
                      Get(out.obj, "age_range", "adult"),
                      Get(out.obj, "pronouns", "they/them"),
                      Get(out.obj, "core_roles", << >>),
                      Get(out.obj, "core_relationships", << >>),
                      Get(out.obj, "core_stressor_summary", ""),
                      [i \in 1..Len(facets.items) |->
                          LifeFacet(Get(facets.items[i], "category", ""),
                                    Get(facets.items[i], "salience", "med"),
                                    Get(facets.items[i], "description", ""))])

----------------------------------------------------------------------------
(* Inputs: the texts the manager calls return.                             *)

\* number of asked items that were not the head of dsm_pool when asked
OutOfOrder(asked) ==
    Cardinality({i \in 1..Len(asked) :
        \E j \in 1..Len(DSM_ITEMS) :
            /\ DSM_ITEMS[j] \notin {asked[n] : n \in 1..i}
            /\ \E m \in (j + 1)..Len(DSM_ITEMS) : DSM_ITEMS[m] = asked[i]})

\* pool items a manager or random.choice may name: the head, and the last
\* item while the session has asked fewer than MaxOutOfOrder items out of order
PickableKeys(pool, asked) ==
    IF pool = << >> THEN {""}
    ELSE IF OutOfOrder(asked) < MaxOutOfOrder
    THEN {pool[1], pool[Len(pool)]}
    ELSE {pool[1]}

\* a key that is no DSM item
UnknownKey == "Anhedonia"

\* keys that are not in the pool: empty, unknown, already asked
StaleKeys(asked) ==
    {"", UnknownKey} \cup (IF asked = << >> THEN {} ELSE {asked[1]})

EmptyObject == [k \in {} |-> ""]

DoctorManagerOutputs(pool, asked) ==
    {NotJson, NonObject, Object(EmptyObject)}
    \cup {Object([next_action |-> "DSM", reason |-> "manager reason",
                  doctor_instruction |-> "Ask gently.",
                  dsm_symptom_key |-> k]) :
             k \in PickableKeys(pool, asked) \cup StaleKeys(asked)}
    \cup {Object([next_action |-> "DSM", reason |-> "manager reason",
                  doctor_instruction |-> i, dsm_symptom_key |-> pool[1]]) :
             i \in {Blank, JsonNull, JsonNumber}}
    \cup {Object([next_action |-> a, reason |-> "manager reason",
                  doctor_instruction |-> "Ask gently.",
                  dsm_symptom_key |-> ""]) :
             a \in {"FOLLOW_UP", "RAPPORT", "END", "CHAT"}}
    \cup {Object([next_action |-> "FOLLOW_UP", reason |-> "manager reason",
                  dsm_symptom_key |-> pool[1]])}

PostDsmManagerOutputs ==
    {NotJson, NonObject, Object(EmptyObject)}
    \cup {Object([next_action |-> a, reason |-> "manager reason",
                  doctor_instruction |-> "Ask gently."]) :
             a \in {"FOLLOW_UP", "RAPPORT", "END", "DSM"}}
    \cup {Object([next_action |-> "FOLLOW_UP",
                  doctor_instruction |-> JsonNumber])}

PatientManagerOutputs ==
    {NotJson, NonObject, Object(EmptyObject)}
    \cup {Object([disclosure_stage |-> d]) :
             d \in {"MINIMIZE", "PARTIAL", "OPEN", "FULL"}}

----------------------------------------------------------------------------
(* run_patient_doctor_session, session_runner.py 623-1349 *)

Line(role, content) == [role |-> role, content |-> content]

\* SelectMode with the coverage guard one turn late (< for <=)
SelectMode_LateGuard(pool, elapsed, max_turns, turn_budget, target) ==
    LET remaining_total_turns == max_turns - elapsed
        remaining_dsm_turns   == Max(0, turn_budget - elapsed)
        remaining_dsm_items   == Len(pool)
    IN  IF remaining_dsm_items = 0 THEN "post_dsm"
        ELSE IF remaining_total_turns < remaining_dsm_items
        THEN "forced_dsm_coverage"
        ELSE IF 2 * remaining_dsm_turns < target * remaining_dsm_items
        THEN "low_turns"
        ELSE "normal"

\* SelectMode without the coverage guard
SelectMode_NoGuard(pool, elapsed, max_turns, turn_budget, target) ==
    LET remaining_dsm_turns == Max(0, turn_budget - elapsed)
        remaining_dsm_items == Len(pool)
    IN  IF remaining_dsm_items = 0 THEN "post_dsm"
        ELSE IF 2 * remaining_dsm_turns < target * remaining_dsm_items
        THEN "low_turns"
        ELSE "normal"

\* SelectMode with the ratio taken over the total turns, buffer included
SelectMode_TotalRatio(pool, elapsed, max_turns, turn_budget, target) ==
    LET remaining_total_turns == max_turns - elapsed
        remaining_dsm_items   == Len(pool)
    IN  IF remaining_dsm_items = 0 THEN "post_dsm"
        ELSE IF remaining_total_turns <= remaining_dsm_items
        THEN "forced_dsm_coverage"
        ELSE IF 2 * remaining_total_turns < target * remaining_dsm_items
        THEN "low_turns"
        ELSE "normal"

\* mode selection at the head of an iteration, lines 831-836, 951, 1050-1066;
\* target is in halves, so ratio < target is 2 * turns < target * items
SelectMode(pool, elapsed, max_turns, turn_budget, target) ==
    LET remaining_total_turns == max_turns - elapsed
        remaining_dsm_turns   == Max(0, turn_budget - elapsed)
        remaining_dsm_items   == Len(pool)
    IN  IF remaining_dsm_items = 0 THEN "post_dsm"
        ELSE IF remaining_total_turns <= remaining_dsm_items
        THEN "forced_dsm_coverage"
        ELSE IF 2 * remaining_dsm_turns < target * remaining_dsm_items
        THEN "low_turns"
        ELSE "normal"

\* the loop test off by one (<= for <)
LoopCondition_OffByOne(elapsed, max_turns) == elapsed <= max_turns

\* line 827: the loop test
LoopCondition(elapsed, max_turns) == elapsed < max_turns

\* force mode that trusts the action of the manager
ForcedAction_FromManager(decision) == decision.next_action

\* line 1029: next_action = "DSM", always DSM in force mode
ForcedAction(decision) == "DSM"

\* a FOLLOW_UP that names an item asks it
AsksItem_FollowUpToo(action) == action \in {"DSM", "FOLLOW_UP"}

\* line 1165: the turn asks an item
AsksItem(action) == action = "DSM"

\* substitution of the last pending item
FallbackKey_Last(pool) == pool[Len(pool)]

\* line 1176: the item substituted for an invalid key
FallbackKey(pool) == pool[1]

\* an END that does not close the visit
EndsVisit_Never(action) == FALSE

\* line 942: if next_action == "END"
EndsVisit(action) == action = "END"

\* a closing line after every visit
PatientSpokeLast_Always(history) == TRUE

\* line 1337: conversation_history[-1]["role"] == "user"
PatientSpokeLast(history) == history[Len(history)].role = "user"

\* lines 623-690: the state before the greeting
Init ==
    /\ pc = "greeting"
    /\ pacing \in Pacings
    /\ doctor_persona_id \in PersonaIds
    /\ \E trust \in TrustLevels, verbosity \in VerbosityLevels :
           disclosure_state = init_disclosure_state(trust, verbosity)
    /\ conversation_history = << >>
    /\ dsm_pool = DSM_ITEMS
    /\ asked_question_order = << >>
    /\ doctor_turns_elapsed = 0
    /\ iterations = 0
    /\ manager_type = ""
    /\ manager_output = NoOutput
    /\ next_action = ""
    /\ reason = ""
    /\ dsm_symptom_key = ""
    /\ doctor_instruction = ""
    /\ exit_reason = ""
    /\ patient_guidance = NoGuidance
    /\ call = NoCall

\* line 703
Greeting ==
    /\ pc = "greeting"
    /\ conversation_history' =
           Append(conversation_history, Line("assistant", "first_greeting"))
    /\ pc' = "first_patient_guidance"
    /\ UNCHANGED << call, patient_guidance, pacing, doctor_persona_id, disclosure_state, dsm_pool,
                    asked_question_order, doctor_turns_elapsed, iterations,
                    manager_type, manager_output, next_action, reason,
                    dsm_symptom_key, doctor_instruction, exit_reason >>

\* the stage a reply that ignores the guidance would keep
OverwriteDisclosure_Keep(current, guidance) == current

\* lines 766 and 1289: disclosure_state = patient_guidance["disclosure_stage"]
OverwriteDisclosure(current, guidance) == guidance.disclosure_stage

\* lines 755 and 1271: base_voice_style of the parser call.  The voice style
\* sets the defaults of guidance fields that only the patient prompt reads,
\* so the session state does not hold it; the parser is given the style of
\* a profile without VOICE_STYLE.
base_voice_style == [trust |-> "neutral", verbosity |-> "moderate"]

\* the patient-guidance step: call, parse, overwrite of disclosure_state.
\* It is the last reader of next_action (as last_doctor_move);
\* patient_guidance keeps the guidance field the session reads.
GuidanceStep(at, to) ==
    /\ pc = at
    /\ \E out \in PatientManagerOutputs :
           LET guidance == parse_patient_manager_output(
                               out, base_voice_style.trust,
                               base_voice_style.verbosity, disclosure_state)
           IN  IF guidance.raised
               THEN /\ pc' = "raised"
                    /\ UNCHANGED << disclosure_state, patient_guidance >>
               ELSE /\ pc' = to
                    /\ patient_guidance' =
                           [disclosure_stage |-> guidance.fields.disclosure_stage]
                    /\ disclosure_state' =
                           OverwriteDisclosure(disclosure_state, patient_guidance')
    /\ next_action' = ""
    /\ UNCHANGED << call, pacing, doctor_persona_id, conversation_history, dsm_pool,
                    asked_question_order, doctor_turns_elapsed, iterations,
                    manager_type, manager_output, reason,
                    dsm_symptom_key, doctor_instruction, exit_reason >>

\* the patient generation call and the append of its reply
ReplyStep(at, to) ==
    /\ pc = at
    /\ conversation_history' =
           Append(conversation_history, Line("user", "patient_reply"))
    /\ pc' = to
    /\ UNCHANGED << call, patient_guidance, pacing, doctor_persona_id, disclosure_state, dsm_pool,
                    asked_question_order, doctor_turns_elapsed, iterations,
                    manager_type, manager_output, next_action, reason,
                    dsm_symptom_key, doctor_instruction, exit_reason >>

\* lines 722-773
FirstPatientGuidance == GuidanceStep("first_patient_guidance", "first_patient_reply")

\* lines 791-815
FirstPatientReply == ReplyStep("first_patient_reply", "loop_head")

\* the last pending item forced
ForcedKey_Last(pool) == pool[Len(pool)]

\* line 963: dsm_symptom_key = dsm_pool[0], the item of a FORCE_DSM turn
ForcedKey(pool) == pool[1]

\* lines 827-836, 951, 963, 1050-1066: loop test and mode selection
LoopHead ==
    /\ pc = "loop_head"
    /\ IF LoopCondition(doctor_turns_elapsed, max_doctor_turns)
       THEN LET mode == SelectMode(dsm_pool, doctor_turns_elapsed,
                                   max_doctor_turns, dsm_turn_budget,
                                   target_turns_per_symptom(pacing, doctor_persona_id))
            IN  /\ manager_type' = mode
                /\ iterations' = iterations + 1
                /\ pc' = "decision"
                /\ dsm_symptom_key' =
                       IF mode = "forced_dsm_coverage" THEN ForcedKey(dsm_pool)
                       ELSE dsm_symptom_key
                /\ UNCHANGED exit_reason
       ELSE /\ pc' = "close"
            /\ exit_reason' = "turns_exhausted"
            /\ UNCHANGED << manager_type, iterations, dsm_symptom_key >>
    /\ UNCHANGED << call, patient_guidance, pacing, doctor_persona_id, disclosure_state,
                    conversation_history, dsm_pool, asked_question_order,
                    doctor_turns_elapsed, manager_output, next_action,
                    reason, doctor_instruction >>

\* lines 899-947: POST_DSM manager call and decision, END closes the visit
PostDsmDecision ==
    /\ pc = "decision"
    /\ manager_type = "post_dsm"
    /\ manager_output' \in PostDsmManagerOutputs
    /\ LET post_dsm_decision == parse_post_dsm_manager_output(manager_output')
       IN  IF post_dsm_decision.raised
           THEN /\ pc' = "raised"
                /\ UNCHANGED << next_action, reason, doctor_instruction,
                                conversation_history, exit_reason >>
           ELSE /\ next_action' = post_dsm_decision.next_action
                /\ reason' = post_dsm_decision.reason
                /\ doctor_instruction' = post_dsm_decision.doctor_instruction
                /\ IF EndsVisit(post_dsm_decision.next_action)
                   THEN /\ conversation_history' =
                               Append(conversation_history,
                                      Line("assistant", "closing_msg"))
                        /\ pc' = "close"
                        /\ exit_reason' = "END"
                   ELSE /\ pc' = "turn_update"
                        /\ UNCHANGED << conversation_history, exit_reason >>
    /\ UNCHANGED << call, patient_guidance, pacing, doctor_persona_id, disclosure_state, dsm_pool,
                    asked_question_order, doctor_turns_elapsed, iterations,
                    manager_type, dsm_symptom_key >>

\* lines 1002-1046: FORCE_DSM manager call and decision;
\* dsm_symptom_key was read at line 963
ForceDsmDecision ==
    /\ pc = "decision"
    /\ manager_type = "forced_dsm_coverage"
    /\ manager_output' \in DoctorManagerOutputs(dsm_pool, asked_question_order)
    /\ \E choice \in PickableKeys(dsm_pool, asked_question_order) :
           LET force_dsm_decision ==
                   parse_doctor_manager_output(manager_output', dsm_pool, choice)
           IN  IF force_dsm_decision.raised
               THEN /\ pc' = "raised"
                    /\ UNCHANGED << next_action, reason, doctor_instruction >>
               ELSE /\ next_action' = ForcedAction(force_dsm_decision)
                    /\ reason' = force_dsm_decision.reason
                    /\ doctor_instruction' = force_dsm_decision.doctor_instruction
                    /\ pc' = "turn_update"
    /\ UNCHANGED << call, patient_guidance, pacing, doctor_persona_id, disclosure_state,
                    conversation_history, dsm_pool, asked_question_order,
                    doctor_turns_elapsed, iterations, manager_type,
                    dsm_symptom_key, exit_reason >>

\* lines 1118-1159: NORMAL and LOW_TURNS manager call and decision
ManagerDecision ==
    /\ pc = "decision"
    /\ manager_type \in {"normal", "low_turns"}
    /\ manager_output' \in DoctorManagerOutputs(dsm_pool, asked_question_order)
    /\ \E choice \in PickableKeys(dsm_pool, asked_question_order) :
           LET doctor_manager_decision ==
                   parse_doctor_manager_output(manager_output', dsm_pool, choice)
           IN  IF doctor_manager_decision.raised
               THEN /\ pc' = "raised"
                    /\ UNCHANGED << next_action, reason, doctor_instruction,
                                    dsm_symptom_key >>
               ELSE /\ next_action' = doctor_manager_decision.next_action
                    /\ reason' = doctor_manager_decision.reason
                    /\ doctor_instruction' =
                           doctor_manager_decision.doctor_instruction
                    /\ dsm_symptom_key' =
                           doctor_manager_decision.dsm_symptom_key
                    /\ pc' = "turn_update"
    /\ UNCHANGED << call, patient_guidance, pacing, doctor_persona_id, disclosure_state,
                    conversation_history, dsm_pool, asked_question_order,
                    doctor_turns_elapsed, iterations, manager_type,
                    exit_reason >>

\* lines 1164-1187: the tag of the directive block of the doctor's input;
\* every action other than DSM and FOLLOW_UP takes the RAPPORT branch
DirectiveTag(action) ==
    IF action = "DSM" THEN "NEXT_QUESTION"
    ELSE IF action = "FOLLOW_UP" THEN "FOLLOW_UP"
    ELSE "RAPPORT"

\* lines 1161-1187: turn counter and pool update
TurnUpdate ==
    /\ pc = "turn_update"
    /\ doctor_turns_elapsed' = doctor_turns_elapsed + 1
    /\ IF AsksItem(next_action)
       THEN IF dsm_symptom_key \in Range(dsm_pool)
            THEN /\ dsm_pool' = ListRemove(dsm_pool, dsm_symptom_key)
                 /\ asked_question_order' =
                        Append(asked_question_order, dsm_symptom_key)
                 /\ UNCHANGED << dsm_symptom_key, doctor_instruction >>
            ELSE IF dsm_pool # << >>
            THEN /\ dsm_symptom_key' = FallbackKey(dsm_pool)
                 /\ dsm_pool' = ListRemove(dsm_pool, FallbackKey(dsm_pool))
                 /\ asked_question_order' =
                        Append(asked_question_order, FallbackKey(dsm_pool))
                 /\ doctor_instruction' =
                        "Ask about " \o FallbackKey(dsm_pool)
                            \o " in a natural, conversational way."
            ELSE UNCHANGED << dsm_pool, asked_question_order,
                              dsm_symptom_key, doctor_instruction >>
       ELSE UNCHANGED << dsm_pool, asked_question_order, dsm_symptom_key,
                         doctor_instruction >>
    /\ pc' = "doctor_reply"
    /\ manager_output' = NoOutput
    /\ UNCHANGED << call, patient_guidance, pacing, doctor_persona_id, disclosure_state,
                    conversation_history, iterations, manager_type,
                    next_action, reason, exit_reason >>

\* a doctor reply that the patient answers without a guidance step
DoctorReply_NoGuidance ==
    /\ pc = "doctor_reply"
    /\ conversation_history' =
           Append(conversation_history, Line("assistant", "doctor_reply"))
    /\ pc' = "patient_reply"
    /\ reason' = ""
    /\ doctor_instruction' = ""
    /\ UNCHANGED << call, patient_guidance, pacing, doctor_persona_id, disclosure_state, dsm_pool,
                    asked_question_order, doctor_turns_elapsed, iterations,
                    manager_type, manager_output, next_action,
                    dsm_symptom_key, exit_reason >>

\* lines 1189-1216: doctor generation call and the append of its reply.
\* It is the last reader of doctor_instruction (in doctor_input).
DoctorReply ==
    /\ pc = "doctor_reply"
    /\ conversation_history' =
           Append(conversation_history, Line("assistant", "doctor_reply"))
    /\ pc' = "patient_guidance"
    /\ reason' = ""
    /\ doctor_instruction' = ""
    /\ UNCHANGED << call, patient_guidance, pacing, doctor_persona_id, disclosure_state, dsm_pool,
                    asked_question_order, doctor_turns_elapsed, iterations,
                    manager_type, manager_output, next_action,
                    dsm_symptom_key, exit_reason >>

\* lines 1218-1295
PatientGuidance == GuidanceStep("patient_guidance", "patient_reply")

\* lines 1310-1334
PatientReply == ReplyStep("patient_reply", "loop_head")

\* lines 1336-1349 and the record built at 1385-1438
CloseSession ==
    /\ pc = "close"
    /\ conversation_history' =
           IF PatientSpokeLast(conversation_history)
           THEN Append(conversation_history, Line("assistant", "final_msg"))
           ELSE conversation_history
    /\ pc' = "done"
    /\ UNCHANGED << call, patient_guidance, pacing, doctor_persona_id, disclosure_state, dsm_pool,
                    asked_question_order, doctor_turns_elapsed, iterations,
                    manager_type, manager_output, next_action, reason,
                    dsm_symptom_key, doctor_instruction, exit_reason >>

Next ==
    \/ Greeting
    \/ FirstPatientGuidance
    \/ FirstPatientReply
    \/ LoopHead
    \/ PostDsmDecision
    \/ ForceDsmDecision
    \/ ManagerDecision
    \/ TurnUpdate
    \/ DoctorReply
    \/ PatientGuidance
    \/ PatientReply
    \/ CloseSession

Spec == Init /\ [][Next]_vars

----------------------------------------------------------------------------
(* random.Random: the generator is its seed and the number of values drawn *)
(* so far; the n-th raw value is a fixed function of the seed.  trace      *)
(* lists what each value was drawn for.                                    *)

Rng(seed) == [seed |-> seed, n |-> 0, trace |-> << >>]

\* the n-th raw value of the generator seeded with seed
Raw(seed, n) == (seed * 37 + n * 101 + seed * n * 13 + n * n * 7) % 997

\* one raw value
Draw(rng, label) ==
    [v   |-> Raw(rng.seed, rng.n),
     rng |-> [rng EXCEPT !.n = @ + 1, !.trace = Append(@, label)]]

\* rng.choice(seq)
choice(rng, seq, label) ==
    LET d == Draw(rng, label)
    IN  [v |-> seq[(d.v % Len(seq)) + 1], rng |-> d.rng]

\* rng.randint(a, b)
randint(rng, a, b, label) ==
    LET d == Draw(rng, label)
    IN  [v |-> a + (d.v % (b - a + 1)), rng |-> d.rng]

\* the sequence without its i-th element
RemoveAt(seq, i) == SubSeq(seq, 1, i - 1) \o SubSeq(seq, i + 1, Len(seq))

\* rng.sample(population, k): k distinct elements, one value each
RECURSIVE sample(_, _, _, _)
sample(rng, population, k, label) ==
    IF k = 0 THEN [v |-> << >>, rng |-> rng]
    ELSE LET d    == Draw(rng, label)
             i    == (d.v % Len(population)) + 1
             rest == sample(d.rng, RemoveAt(population, i), k - 1, label)
         IN  [v |-> << population[i] >> \o rest.v, rng |-> rest.rng]

RECURSIVE SumSeq(_)
SumSeq(seq) == IF seq = << >> THEN 0 ELSE Head(seq) + SumSeq(Tail(seq))

\* rng.choices(population, weights=weights, k=1)[0]: the element whose
\* share of the cumulated weights holds the value drawn
WeightedPick(d, x, population, weights) ==
    [v   |-> population[CHOOSE j \in 1..Len(weights) :
                           /\ SumSeq(SubSeq(weights, 1, j - 1)) <= x
                           /\ x < SumSeq(SubSeq(weights, 1, j))],
     rng |-> d.rng]

WeightedDraw(d, population, weights) ==
    WeightedPick(d, d.v % SumSeq(weights), population, weights)

choices(rng, population, weights, label) ==
    WeightedDraw(Draw(rng, label), population, weights)

----------------------------------------------------------------------------
(* data/templates.py and data/pools.py *)

DSM5_DEPRESSION_SYMPTOMS == DSM_ITEMS

\* list(BIG5_DEP_TEMPLATES.keys())
TemplateIds ==
    << "NEUROTICISM_HIGH", "EXTRAVERSION_LOW", "CONSCIENTIOUSNESS_HIGH",
       "CONSCIENTIOUSNESS_LOW", "AGREEABLENESS_HIGH", "AGREEABLENESS_LOW",
       "OPENNESS_HIGH", "OPENNESS_LOW" >>

\* BIG5_DEP_TEMPLATES[id]["emphasized_symptoms"], as positions in the catalogue
EmphasizedPositions(id) ==
    CASE id = "NEUROTICISM_HIGH"       -> << 1, 6, 7, 8 >>
      [] id = "EXTRAVERSION_LOW"       -> << 2, 5, 6 >>
      [] id = "CONSCIENTIOUSNESS_HIGH" -> << 3, 4, 6, 7 >>
      [] id = "CONSCIENTIOUSNESS_LOW"  -> << 5, 6, 8 >>
      [] id = "AGREEABLENESS_HIGH"     -> << 1, 4, 6, 7 >>
      [] id = "AGREEABLENESS_LOW"      -> << 1, 5, 4 >>
      [] id = "OPENNESS_HIGH"          -> << 1, 2, 9 >>
      [] id = "OPENNESS_LOW"           -> << 3, 4, 6 >>

\* BIG5_DEP_TEMPLATES[id]["modifiers"]
TemplateModifiers(id) ==
    CASE id = "NEUROTICISM_HIGH" ->
             << "worry-prone", "self-blaming", "threat-sensitivity",
                "emotionally-reactive", "ruminative" >>
      [] id = "EXTRAVERSION_LOW" ->
             << "socially-withdrawn", "pleasure-unresponsive", "passive",
                "low-initiative", "isolating" >>
      [] id = "CONSCIENTIOUSNESS_HIGH" ->
             << "perfectionistic", "rigidly-self-critical", "duty-focused",
                "overwork-prone", "failure-intolerant" >>
      [] id = "CONSCIENTIOUSNESS_LOW" ->
             << "disorganized", "unmotivated", "self-care-neglecting",
                "task-avoidant", "forgetful" >>
      [] id = "AGREEABLENESS_HIGH" ->
             << "people-pleasing", "over-responsible-for-others",
                "self-sacrificing", "conflict-avoidant", "guilt-prone" >>
      [] id = "AGREEABLENESS_LOW" ->
             << "irritable", "blame-externalizing", "rejection-sensitive",
                "defensively-hostile", "interpersonally-strained" >>
      [] id = "OPENNESS_HIGH" ->
             << "existentially-focused", "meaning-seeking", "introspective",
                "metaphorically-expressive", "philosophically-ruminating" >>
      [] id = "OPENNESS_LOW" ->
             << "somatically-focused", "insight-limited",
                "mood-distress-denying", "literal-thinking",
                "body-complaint-oriented" >>

\* BIG5_DEP_TEMPLATES[id], as far as the sampler reads it
Template(id) ==
    [emphasized_symptoms |->
         [i \in 1..Len(EmphasizedPositions(id)) |->
             DSM5_DEPRESSION_SYMPTOMS[EmphasizedPositions(id)[i]]],
     modifiers |-> TemplateModifiers(id)]

PACING_LEVELS == << "LOW", "MED", "HIGH" >>

GENERIC_CONTEXT_DOMAINS ==
    << "work/role strain", "relationships strain", "health concern",
       "self-worth/identity strain", "general stress/no clear trigger",
       "major life transition", "grief/bereavement" >>

MAX_CONTEXT_DOMAINS == 2

INTENSITY_LEVELS == << "LOW", "MED", "HIGH" >>

EPISODE_DENSITY_LEVELS == << "ULTRA_LOW", "LOW", "MED", "HIGH" >>

PATIENT_HUMOR_LEVELS == << "none", "occasional", "frequent" >>

\* the dimensions of VOICE_STYLE_OPTIONS, in the order of the dict
VoiceStyleDimensions == << "verbosity", "expressiveness", "trust", "intellect" >>

VOICE_STYLE_OPTIONS(dim) ==
    CASE dim = "verbosity"      -> << "terse", "moderate", "detailed" >>
      [] dim = "expressiveness" -> << "flat", "balanced", "intense" >>
      [] dim = "trust"          -> << "guarded", "neutral", "open" >>
      [] dim = "intellect"      -> << "low-functioning", "moderate-functioning",
                                      "high-functioning" >>

LIVING_SITUATION_POOL ==
    << "alone", "with partner", "with family", "shared housing" >>

WORK_ROLE_POOL == << "employed", "student", "caregiving role", "between roles" >>

ROUTINE_STABILITY_POOL == << "stable routine", "variable routine" >>

SUPPORT_LEVEL_POOL == << "low support", "moderate support", "high support" >>

AGE_RANGES ==
    << "16-19", "20-24", "25-29", "30-34", "35-39", "40-49", "50-59",
       "60-69", "70-80" >>

\* AGE_WEIGHTS_BY_ROLE.get(work_role, AGE_DEFAULT_WEIGHTS), times 20
AgeWeights(work_role) ==
    CASE work_role = "student" -> << 80, 100, 60, 20, 10, 6, 4, 2, 1 >>
      [] work_role = "employed" -> << 10, 40, 60, 60, 60, 50, 40, 20, 6 >>
      [] work_role = "caregiving role" -> << 2, 6, 16, 30, 50, 60, 60, 50, 40 >>
      [] work_role = "between roles" -> << 30, 40, 50, 40, 30, 20, 16, 12, 8 >>
      [] OTHER -> << 20, 40, 50, 40, 30, 30, 20, 16, 10 >>

----------------------------------------------------------------------------
(* generate_depression_profile and sample_patient_profile,                 *)
(* generation/profile_generation.py.  A dict is a function of its keys.    *)
(* Iterating over a set of strings visits them in the order of their       *)
(* hashes, which changes with the hash seed of the process: hash_order     *)
(* names the order of one process.                                         *)

HashOrders == {"listed", "reversed", "rotated"}

Reverse(seq) == [i \in 1..Len(seq) |-> seq[Len(seq) + 1 - i]]

\* the order in which a process iterates over set(seq)
SetIteration(seq, hash_order) ==
    CASE hash_order = "listed"   -> seq
      [] hash_order = "reversed" -> Reverse(seq)
      [] hash_order = "rotated"  -> Tail(seq) \o << Head(seq) >>

\* d[k] = v
Put(d, k, v) == [x \in DOMAIN d \cup {k} |-> IF x = k THEN v ELSE d[x]]

\* lines 85-97 and 117-129: the population and the weights of the choice
\* for an emphasized symptom
EmphasizedWeights(level) ==
    IF level = "LOW"
    THEN [population |-> << "RARE", "SOME", "OFTEN" >>, weights |-> << 5, 4, 1 >>]
    ELSE IF level = "HIGH"
    THEN [population |-> << "SOME", "OFTEN" >>, weights |-> << 2, 8 >>]
    ELSE [population |-> << "SOME", "OFTEN", "RARE" >>, weights |-> << 5, 4, 1 >>]

\* lines 98-101: a selected symptom that is not emphasized (ULTRA_LOW)
SelectedWeights ==
    [population |-> << "RARE", "SOME", "OFTEN" >>, weights |-> << 5, 3, 2 >>]

\* lines 130-133: an extra-elevated symptom
ExtraHighWeights ==
    [population |-> << "RARE", "SOME", "OFTEN" >>, weights |-> << 2, 5, 3 >>]

\* any other symptom elevated like an extra-elevated one
NonEmphWeights_Elevated(episode_density) == ExtraHighWeights

\* the weights of LOW and HIGH exchanged
NonEmphWeights_Reversed(episode_density) ==
    [population |-> << "NONE", "RARE", "SOME" >>,
     weights    |-> IF episode_density = "LOW" THEN << 3, 3, 4 >>
                    ELSE IF episode_density = "HIGH" THEN << 7, 2, 1 >>
                    ELSE << 5, 3, 2 >>]

\* lines 105-110 and 135-138: any other symptom
NonEmphWeights(episode_density) ==
    [population |-> << "NONE", "RARE", "SOME" >>,
     weights    |-> IF episode_density = "LOW" THEN << 7, 2, 1 >>
                    ELSE IF episode_density = "HIGH" THEN << 3, 3, 4 >>
                    ELSE << 5, 3, 2 >>]

\* lines 84-101: the choice for one selected symptom
UltraLowWeights(symptom, emphasized, emph_intensity) ==
    IF symptom \in emphasized
    THEN EmphasizedWeights(emph_intensity[symptom])
    ELSE SelectedWeights

\* lines 114-138: the choice for one symptom of the catalogue
StandardWeights(symptom, emphasized, emph_intensity, extra_high, episode_density) ==
    IF symptom \in emphasized
    THEN EmphasizedWeights(emph_intensity[symptom])
    ELSE IF symptom \in Range(extra_high)
    THEN ExtraHighWeights
    ELSE NonEmphWeights(episode_density)

\* rng.choices(population, weights=weights, k=1)[0] for a frequency
Frequency(rng, w) == choices(rng, w.population, w.weights, "frequency")

\* a symptom is given the frequency f
Assigned(acc, symptom, f) ==
    [acc EXCEPT !.profile = Put(@, symptom, f.v), !.rng = f.rng]

\* the pool extended whatever the target
CandidatePool_Extended(listed, non_emphasized, target_symptom_count) ==
    listed \o non_emphasized

\* lines 64-69: the emphasized symptoms, and the others when the target
\* exceeds their number
CandidatePool(listed, non_emphasized, target_symptom_count) ==
    IF target_symptom_count > Len(listed)
    THEN listed \o non_emphasized ELSE listed

\* lines 81-101: the loop over selected_symptoms; acc is the profile, the
\* generator and whether emph_intensity[symptom] raised KeyError
RECURSIVE AssignSelected(_, _, _, _)
AssignSelected(acc, selected, emphasized, emph_intensity) ==
    IF selected = << >> \/ acc.raised THEN acc
    ELSE IF Head(selected) \in emphasized
            /\ Head(selected) \notin DOMAIN emph_intensity
    THEN [acc EXCEPT !.raised = TRUE]
    ELSE AssignSelected(
             Assigned(acc, Head(selected),
                      Frequency(acc.rng,
                                UltraLowWeights(Head(selected), emphasized,
                                                emph_intensity))),
             Tail(selected), emphasized, emph_intensity)

\* lines 113-138: the loop over DSM5_DEPRESSION_SYMPTOMS
RECURSIVE AssignAll(_, _, _, _, _, _)
AssignAll(acc, symptoms, emphasized, emph_intensity, extra_high, episode_density) ==
    IF symptoms = << >> \/ acc.raised THEN acc
    ELSE IF Head(symptoms) \in emphasized
            /\ Head(symptoms) \notin DOMAIN emph_intensity
    THEN [acc EXCEPT !.raised = TRUE]
    ELSE AssignAll(
             Assigned(acc, Head(symptoms),
                      Frequency(acc.rng,
                                StandardWeights(Head(symptoms), emphasized,
                                                emph_intensity, extra_high,
                                                episode_density))),
             Tail(symptoms), emphasized, emph_intensity, extra_high,
             episode_density)

\* line 52
AllNone == [x \in Range(DSM5_DEPRESSION_SYMPTOMS) |-> "NONE"]

\* lines 72-101: the symptoms sampled from the pool are assigned
SelectedAssigned(selected, emphasized, emph_intensity) ==
    AssignSelected([profile |-> AllNone, rng |-> selected.rng,
                    raised |-> FALSE],
                   selected.v, emphasized, emph_intensity)

\* lines 60-75: the pool and the sample, target the count drawn
UltraLow(target, listed, non_emphasized, emphasized, emph_intensity) ==
    SelectedAssigned(
        IF target.v > 0
        THEN sample(target.rng,
                    CandidatePool(listed, non_emphasized, target.v),
                    Min(target.v,
                        Len(CandidatePool(listed, non_emphasized, target.v))),
                    "frequency")
        ELSE [v |-> << >>, rng |-> target.rng],
        emphasized, emph_intensity)

\* lines 27-140; the result is the profile, the generator after the call
\* and whether the call raised
generate_depression_profile(rng, template, episode_density, emph_intensity, extra_high, hash_order) ==
    IF episode_density = "ULTRA_LOW"
    THEN UltraLow(choice(rng, << 0, 1, 2 >>, "frequency"),
                  SetIteration(template.emphasized_symptoms, hash_order),
                  SelectSeq(DSM5_DEPRESSION_SYMPTOMS,
                            LAMBDA x : x \notin
                                Range(template.emphasized_symptoms)),
                  Range(template.emphasized_symptoms), emph_intensity)
    ELSE AssignAll([profile |-> EmptyObject, rng |-> rng, raised |-> FALSE],
                   DSM5_DEPRESSION_SYMPTOMS,
                   Range(template.emphasized_symptoms), emph_intensity,
                   extra_high, episode_density)

\* the probability, in thirtieths, that a weighted choice gives a frequency
\* other than NONE
Thirtieths(w) ==
    (30 * SumSeq([i \in 1..Len(w.weights) |->
                     IF w.population[i] # "NONE" THEN w.weights[i] ELSE 0]))
        \div SumSeq(w.weights)

\* lines 63-101: the expected number of symptoms other than NONE, in
\* thirtieths, when n symptoms are sampled from the pool; every symptom of
\* the pool is sampled with probability n / len(pool)
ExpectedOfPool(pool, n, emphasized, emph_intensity) ==
    (n * SumSeq([i \in 1..Len(pool) |->
                    Thirtieths(UltraLowWeights(pool[i], emphasized,
                                               emph_intensity))]))
        \div Len(pool)

\* the same for the pool of a target count
ExpectedOfTarget(target_symptom_count, listed, non_emphasized, emph_intensity) ==
    ExpectedOfPool(
        CandidatePool(listed, non_emphasized, target_symptom_count),
        Min(target_symptom_count,
            Len(CandidatePool(listed, non_emphasized, target_symptom_count))),
        Range(listed), emph_intensity)

\* lines 58-138: the expected number of symptoms other than NONE in the
\* profile that generate_depression_profile returns, in thirtieths; the
\* three target counts of ULTRA_LOW are equally likely
ExpectedNonNone(template, episode_density, emph_intensity, extra_high) ==
    IF episode_density = "ULTRA_LOW"
    THEN SumSeq([k \in 1..3 |->
                    ExpectedOfTarget(
                        << 0, 1, 2 >>[k], template.emphasized_symptoms,
                        SelectSeq(DSM5_DEPRESSION_SYMPTOMS,
                                  LAMBDA x : x \notin
                                      Range(template.emphasized_symptoms)),
                        emph_intensity)]) \div 3
    ELSE SumSeq([i \in 1..Len(DSM5_DEPRESSION_SYMPTOMS) |->
                    Thirtieths(StandardWeights(
                        DSM5_DEPRESSION_SYMPTOMS[i],
                        Range(template.emphasized_symptoms), emph_intensity,
                        extra_high, episode_density))])

\* "k in forced"
Has(forced, k) == k \in DOMAIN forced

\* lines 220-223: one choice per dimension of VOICE_STYLE_OPTIONS
RECURSIVE SampleVoiceStyle(_, _)
SampleVoiceStyle(acc, dims) ==
    IF dims = << >> THEN acc
    ELSE LET c == choice(acc.rng, VOICE_STYLE_OPTIONS(Head(dims)), "voice_style")
         IN  SampleVoiceStyle([v |-> Put(acc.v, Head(dims), c.v), rng |-> c.rng],
                              Tail(dims))

\* lines 272-275: one intensity per emphasized symptom, in the order in
\* which the set is iterated
RECURSIVE SampleIntensity(_, _)
SampleIntensity(acc, symptoms) ==
    IF symptoms = << >> THEN acc
    ELSE LET c == choices(acc.rng, INTENSITY_LEVELS, << 3, 5, 2 >>,
                          "emph_intensity")
         IN  SampleIntensity([v |-> Put(acc.v, Head(symptoms), c.v),
                              rng |-> c.rng],
                             Tail(symptoms))

\* lines 267-275: for sym in emphasized, emphasized a set
SampleIntensityOfSet(rng, template, hash_order) ==
    SampleIntensity([v |-> EmptyObject, rng |-> rng],
                    SetIteration(template.emphasized_symptoms, hash_order))

\* rng.sample(population, k=n), n the count drawn before
SampleCount(n, population, label) == sample(n.rng, population, n.v, label)

\* rng.sample(population, k=rng.randint(a, b)): the count is drawn first
sample_randint(rng, population, a, b, label) ==
    SampleCount(randint(rng, a, b, label), population, label)

\* the partial profile p with the value and the generator of the draw d
With(p, k, d) ==
    [x \in DOMAIN p \cup {k} |->
        IF x = k THEN d.v ELSE IF x = "rng" THEN d.rng ELSE p[x]]

\* forced[k] if k is forced, and no draw; the draw d otherwise
Forced(p, forced, k, d) ==
    IF Has(forced, k) THEN [v |-> forced[k], rng |-> p.rng] ELSE d

\* lines 228-232: the humor of the voice style
WithHumor(dims) ==
    LET humor == choices(dims.rng, PATIENT_HUMOR_LEVELS, << 6, 3, 1 >>,
                         "voice_style")
    IN  [v |-> Put(dims.v, "humor", humor.v), rng |-> humor.rng]

\* lines 235-237: the dimensions of voice_style_partial overwrite the style
WithPartial(forced, style) ==
    IF Has(forced, "voice_style_partial")
    THEN [v |-> [x \in DOMAIN style.v \cup DOMAIN forced.voice_style_partial |->
                    IF x \in DOMAIN forced.voice_style_partial
                    THEN forced.voice_style_partial[x] ELSE style.v[x]],
          rng |-> style.rng]
    ELSE style

\* the pool of a tag of the personal background
TagPool(tag) ==
    CASE tag = "work_role"         -> WORK_ROLE_POOL
      [] tag = "living_situation"  -> LIVING_SITUATION_POOL
      [] tag = "routine_stability" -> ROUTINE_STABILITY_POOL
      [] tag = "support_level"     -> SUPPORT_LEVEL_POOL

\* lines 246-252: one choice per tag, the work role first
RECURSIVE SampleTags(_, _)
SampleTags(acc, tags) ==
    IF tags = << >> THEN acc
    ELSE LET c == choice(acc.rng, TagPool(Head(tags)), "personal_background")
         IN  SampleTags([v |-> Put(acc.v, Head(tags), c.v), rng |-> c.rng],
                        Tail(tags))

\* lines 254-256: the dropped tags are popped
WithoutTags(tags, dropped) ==
    [v |-> [x \in DOMAIN tags.v \ Range(dropped.v) |-> tags.v[x]],
     rng |-> dropped.rng, work_role |-> tags.v.work_role]

\* lines 253-255: one or two of the keys, in the order of the dict literal
DropTags(tags) ==
    WithoutTags(tags,
                sample_randint(tags.rng,
                               << "living_situation", "work_role",
                                  "routine_stability", "support_level" >>,
                               1, 2, "personal_background"))

\* lines 242-257: the tags and the work role that weighs the age
PersonalBackground(p, forced) ==
    IF Has(forced, "personal_background")
    THEN [v |-> forced.personal_background, rng |-> p.rng,
          work_role |-> Get(forced.personal_background, "work_role", "employed")]
    ELSE DropTags(SampleTags([v |-> EmptyObject, rng |-> p.rng],
                             << "work_role", "living_situation",
                                "routine_stability", "support_level" >>))

\* the partial profile with the tags and the work role
WithBackground(p, background) ==
    With(With(p, "PERSONAL_BACKGROUND", background),
         "work_role", [v |-> background.work_role, rng |-> background.rng])

\* the partial profile with the depression profile
WithDepression(p, dep) ==
    [x \in DOMAIN p \cup {"depression_profile", "raised"} |->
        IF x = "depression_profile" THEN dep.profile
        ELSE IF x = "raised" THEN dep.raised
        ELSE IF x = "rng" THEN dep.rng ELSE p[x]]

\* lines 171-291: one step of the sampler on the partial profile p
SampleStep(p, forced, hash_order, step) ==
    CASE step = "template_id" ->
             With(p, "template_id",
                  Forced(p, forced, "template_id",
                         choice(p.rng, TemplateIds, "template")))
      [] step = "modifiers" ->
             With(p, "MODIFIERS",
                  Forced(p, forced, "modifiers",
                         sample_randint(p.rng, Template(p.template_id).modifiers,
                                        0, 2, "modifiers")))
      [] step = "pacing" ->
             With(p, "PACING",
                  Forced(p, forced, "pacing",
                         choice(p.rng, PACING_LEVELS, "pacing")))
      [] step = "context_domains" ->
             With(p, "CONTEXT_DOMAINS",
                  Forced(p, forced, "context_domains",
                         sample_randint(p.rng, GENERIC_CONTEXT_DOMAINS,
                                        0, MAX_CONTEXT_DOMAINS,
                                        "context_domains")))
      [] step = "episode_density" ->
             With(p, "EPISODE_DENSITY",
                  Forced(p, forced, "episode_density",
                         choices(p.rng, EPISODE_DENSITY_LEVELS,
                                 << 2, 5, 9, 4 >>, "episode_density")))
      [] step = "voice_style" ->
             With(p, "VOICE_STYLE",
                  WithPartial(forced,
                      Forced(p, forced, "voice_style",
                             WithHumor(SampleVoiceStyle(
                                 [v |-> EmptyObject, rng |-> p.rng],
                                 VoiceStyleDimensions)))))
      [] step = "personal_background" ->
             WithBackground(p, PersonalBackground(p, forced))
      [] step = "age_range" ->
             With(p, "AGE_RANGE",
                  Forced(p, forced, "age_range",
                         choices(p.rng, AGE_RANGES, AgeWeights(p.work_role),
                                 "age_range")))
      [] step = "emph_intensity" ->
             With(p, "EMPH_INTENSITY",
                  Forced(p, forced, "emph_intensity",
                         SampleIntensityOfSet(p.rng, Template(p.template_id),
                                              hash_order)))
      [] step = "extra_elevated" ->
             With(p, "EXTRA_ELEVATED_SYMPTOMS",
                  Forced(p, forced, "extra_elevated",
                         sample_randint(
                             p.rng,
                             SelectSeq(DSM5_DEPRESSION_SYMPTOMS,
                                 LAMBDA x : x \notin Range(
                                     Template(p.template_id).emphasized_symptoms)),
                             0, 1, "extra_elevated")))
      [] step = "depression_profile" ->
             WithDepression(p,
                 generate_depression_profile(
                     p.rng, Template(p.template_id), p.EPISODE_DENSITY,
                     p.EMPH_INTENSITY, p.EXTRA_ELEVATED_SYMPTOMS, hash_order))

\* the pacing drawn before the modifiers
SampleOrder_PacingFirst ==
    << "template_id", "pacing", "modifiers", "context_domains",
       "episode_density", "voice_style", "personal_background", "age_range",
       "emph_intensity", "extra_elevated", "depression_profile" >>

\* the steps in the order of the code
SampleOrder ==
    << "template_id", "modifiers", "pacing", "context_domains",
       "episode_density", "voice_style", "personal_background", "age_range",
       "emph_intensity", "extra_elevated", "depression_profile" >>

RECURSIVE SampleSteps(_, _, _, _)
SampleSteps(p, forced, hash_order, steps) ==
    IF steps = << >> THEN p
    ELSE SampleSteps(SampleStep(p, forced, hash_order, Head(steps)),
                     forced, hash_order, Tail(steps))

\* lines 180-186, 193-286 and 309-316: the dict returned
Profile(p) ==
    [raised      |-> p.raised,
     template_id |-> p.template_id,
     personality |->
         [BIG5_TEMPLATE           |-> p.template_id,
          MODIFIERS               |-> p.MODIFIERS,
          PACING                  |-> p.PACING,
          CONTEXT_DOMAINS         |-> p.CONTEXT_DOMAINS,
          EPISODE_DENSITY         |-> p.EPISODE_DENSITY,
          VOICE_STYLE             |-> p.VOICE_STYLE,
          PERSONAL_BACKGROUND     |-> p.PERSONAL_BACKGROUND,
          AGE_RANGE               |-> p.AGE_RANGE,
          EMPH_INTENSITY          |-> p.EMPH_INTENSITY,
          EXTRA_ELEVATED_SYMPTOMS |-> p.EXTRA_ELEVATED_SYMPTOMS],
     depression_profile |-> p.depression_profile,
     rng |-> p.rng]

\* lines 143-298, up to the depression profile (skip_life_background set)
sample_patient_profile(rng, forced, hash_order) ==
    Profile(SampleSteps([rng |-> rng], forced, hash_order, SampleOrder))

----------------------------------------------------------------------------
(* Life background, background_writer.py 36-173 and 313-412 *)

\* data/pools.py 98-175
LIFE_FACET_CATEGORIES ==
    << "identity_stage", "cultural_background_orientation",
       "sense_of_belonging", "values_and_priorities", "self_view",
       "short_term_goal", "long_term_goal_or_dream", "stalled_goal",
       "source_of_motivation", "key_partner_or_love_interest",
       "closest_friend_or_confidant", "family_relationship_pattern",
       "work_or_school_ally", "conflictual_relationship",
       "work_or_study_pressure", "sense_of_achievement", "role_conflicts",
       "financial_pressure_or_stability", "schedule_and_time_pressure",
       "responsibility_load", "physical_health_constraints",
       "sleep_pattern_tendency", "existing_diagnoses_or_labels",
       "past_help_seeking", "body_image_concerns_or_comfort",
       "current_primary_stressor", "secondary_stressors", "loss_or_change",
       "unresolved_issue", "fear_or_worry_theme", "coping_style",
       "day_to_day_routines", "soothing_activities", "less_helpful_coping",
       "digital_or_social_media_habits", "hobbies_and_interests",
       "small_joys", "personal_quirks", "self_presentation_style",
       "areas_of_competence_or_pride", "past_difficult_period",
       "prior_relationship_disappointment_or_breakdown",
       "earlier_school_or_work_challenge",
       "family_history_of_health_or_mental_health_issues",
       "significant_move_or_transition", "housing_and_neighbourhood_feel",
       "access_to_resources", "time_and_energy_constraints",
       "explanatory_style", "beliefs_about_help_and_treatment",
       "beliefs_about_self_worth", "hopes_for_future",
       "preoccupations_or_obsessions" >>

\* data/pools.py 178-184
TRAUMA_ADVERSITY_FACETS ==
    << "past_difficult_period",
       "prior_relationship_disappointment_or_breakdown",
       "family_history_of_health_or_mental_health_issues",
       "significant_move_or_transition", "loss_or_change" >>

\* background_writer.py 36-67
compute_symptom_severity(depression_profile) ==
    LET significant_count ==
            Cardinality({x \in DOMAIN depression_profile :
                            depression_profile[x] \in {"SOME", "OFTEN"}})
        often_count ==
            Cardinality({x \in DOMAIN depression_profile :
                            depression_profile[x] = "OFTEN"})
    IN  IF significant_count = 0 THEN "minimal"
        ELSE IF significant_count <= 2
                \/ (significant_count <= 4 /\ often_count = 0) THEN "mild"
        ELSE IF significant_count <= 5 \/ often_count <= 3 THEN "moderate"
        ELSE "severe"

\* lines 99-127: the weights that a context domain sets, in quarters (1.0 is
\* 4); the words are looked for in the domains of GENERIC_CONTEXT_DOMAINS
DomainWeights(domain) ==
    CASE domain = "work/role strain" ->
             [work_or_study_pressure |-> 12, sense_of_achievement |-> 8,
              role_conflicts |-> 8, responsibility_load |-> 8]
      [] domain = "relationships strain" ->
             [family_relationship_pattern |-> 10,
              closest_friend_or_confidant |-> 8,
              key_partner_or_love_interest |-> 8,
              conflictual_relationship |-> 8]
      [] domain = "health concern" ->
             [physical_health_constraints |-> 12, sleep_pattern_tendency |-> 8,
              body_image_concerns_or_comfort |-> 6]
      [] domain = "self-worth/identity strain" ->
             [self_view |-> 10, beliefs_about_self_worth |-> 10,
              identity_stage |-> 8]
      [] domain = "major life transition" ->
             [significant_move_or_transition |-> 10, stalled_goal |-> 8,
              loss_or_change |-> 8]
      [] domain = "grief/bereavement" ->
             [loss_or_change |-> 12, unresolved_issue |-> 8]
      [] OTHER -> EmptyObject

\* dict entries of w overwritten by those of b
Overwritten(w, b) ==
    [c \in DOMAIN w |-> IF c \in DOMAIN b THEN b[c] ELSE w[c]]

RECURSIVE BoostedByDomains(_, _)
BoostedByDomains(w, context_domains) ==
    IF context_domains = << >> THEN w
    ELSE BoostedByDomains(Overwritten(w, DomainWeights(Head(context_domains))),
                          Tail(context_domains))

\* lines 134-144: the trauma categories weigh half more, or half
TraumaWeighted(core, boost) ==
    [c \in DOMAIN core |->
        IF c \in Range(TRAUMA_ADVERSITY_FACETS)
        THEN IF boost THEN (core[c] * 3) \div 2 ELSE core[c] \div 2
        ELSE core[c]]

\* lines 96-144, in quarters
category_weights(context_domains, severity) ==
    TraumaWeighted(
        Overwritten(BoostedByDomains([c \in Range(LIFE_FACET_CATEGORIES) |-> 4],
                                     context_domains),
                    [current_primary_stressor |-> 16, coping_style |-> 10]),
        \/ severity \in {"moderate", "severe"}
        \/ \E i \in 1..Len(context_domains) :
               context_domains[i] \in
                   {"grief/bereavement", "major life transition"})

\* lines 161-171: the candidate is dropped, or appended
Considered(acc, candidate) ==
    IF candidate.v \in Range(acc.selected)
       \/ (/\ candidate.v \in Range(TRAUMA_ADVERSITY_FACETS)
           /\ acc.trauma_in_required >= 2)
    THEN [acc EXCEPT !.rng = candidate.rng, !.attempts = @ + 1]
    ELSE [selected |-> Append(acc.selected, candidate.v),
          trauma_in_required |->
              IF candidate.v \in Range(TRAUMA_ADVERSITY_FACETS)
              THEN acc.trauma_in_required + 1 ELSE acc.trauma_in_required,
          attempts |-> acc.attempts + 1,
          rng |-> candidate.rng]

\* line 158: the condition of the while loop
Selecting(acc, num_facets) ==
    Len(acc.selected) < num_facets /\ acc.attempts < 100

\* lines 157-171: the sampling loop
RECURSIVE SelectLoop(_, _, _)
SelectLoop(acc, num_facets, weights) ==
    IF ~Selecting(acc, num_facets)
    THEN [v |-> acc.selected, rng |-> acc.rng]
    ELSE SelectLoop(Considered(acc, choices(acc.rng, LIFE_FACET_CATEGORIES,
                                            weights, "required_facets")),
                    num_facets, weights)

\* lines 154-155: the weights in the order of the keys
WeightList(w) ==
    [i \in 1..Len(LIFE_FACET_CATEGORIES) |-> w[LIFE_FACET_CATEGORIES[i]]]

\* lines 146-173
SelectFacets(num_facets, weights) ==
    SelectLoop([selected |-> << >>, trauma_in_required |-> 0, attempts |-> 0,
                rng |-> num_facets.rng],
               num_facets.v, weights)

\* background_writer.py 70-173
select_required_facets(rng, context_domains, severity) ==
    SelectFacets(randint(rng, 5, 8, "required_facets"),
                 WeightList(category_weights(context_domains, severity)))

\* one entry of the life_facets array of a writer reply
FacetEntry(category, salience) ==
    [category |-> category, salience |-> salience,
     description |-> "a sentence about the patient"]

\* the categories outside the required set, in the order of the pool
Unrequired(pool, required_facets) ==
    SelectSeq(pool, LAMBDA c : c \notin Range(required_facets))

\* the replies a writer can give when asked for required_facets
Writers ==
    {"as_instructed", "one_high_trauma_extra", "two_high_trauma_extras",
     "other_extras", "one_missing", "one_twice", "no_facets", "no_name",
     "empty_object", "scalar_facets", "prose", "array"}

WriterOutput(writer, required_facets) ==
    LET asked   == [i \in 1..Len(required_facets) |->
                       FacetEntry(required_facets[i], "med")]
        trauma  == Unrequired(TRAUMA_ADVERSITY_FACETS, required_facets)
        other   == Unrequired(
                       SelectSeq(LIFE_FACET_CATEGORIES,
                                 LAMBDA c : c \notin Range(TRAUMA_ADVERSITY_FACETS)),
                       required_facets)
        reply(facets) ==
            Object([name |-> "Alex", age_range |-> "early 30s",
                    pronouns |-> "she/her", core_roles |-> << "nurse" >>,
                    core_relationships |-> << "sister" >>,
                    core_stressor_summary |-> "night shifts",
                    life_facets |-> facets])
    IN  CASE writer = "as_instructed" -> reply(JsonArray(asked))
          [] writer = "one_high_trauma_extra" ->
                 reply(JsonArray(Append(asked, FacetEntry(trauma[1], "high"))))
          [] writer = "two_high_trauma_extras" ->
                 reply(JsonArray(asked \o << FacetEntry(trauma[1], "high"),
                                            FacetEntry(trauma[2], "high") >>))
          [] writer = "other_extras" ->
                 reply(JsonArray(asked \o << FacetEntry(other[1], "low"),
                                            FacetEntry(other[2], "med") >>))
          [] writer = "one_missing" ->
                 reply(JsonArray(IF asked = << >> THEN asked ELSE Tail(asked)))
          [] writer = "one_twice" ->
                 reply(JsonArray(IF asked = << >> THEN asked
                                 ELSE Append(asked, asked[1])))
          [] writer = "no_facets" -> reply(JsonArray(<< >>))
          [] writer = "no_name" ->
                 Object([age_range |-> "early 30s", pronouns |-> "she/her",
                         core_roles |-> << "nurse" >>,
                         core_relationships |-> << "sister" >>,
                         core_stressor_summary |-> "night shifts",
                         life_facets |-> JsonArray(asked)])
          [] writer = "empty_object" -> Object(EmptyObject)
          [] writer = "scalar_facets" -> reply(JsonScalar)
          [] writer = "prose" -> NotJson
          [] writer = "array" -> NonObject

\* background_writer.py 313-412: the required facets selected, the
\* "background" of the returned dict and the generator after the call;
\* every exception of the writer call or of the parser gives None. The
\* personality, the tags and the age range only enter the writer's input.
\* lines 380-412: the try block
WriterResult(required_facets, background) ==
    [required_facets |-> required_facets.v,
     background      |-> IF background.kind = "raised"
                         THEN BackgroundNone ELSE background,
     rng             |-> required_facets.rng]

\* lines 353-383: the writer is asked for the required facets
WriterCall(required_facets, writer) ==
    WriterResult(required_facets,
                 parse_background_writer_output(
                     WriterOutput(writer, required_facets.v)))

call_background_writer(rng, depression_profile, context_domains, writer) ==
    WriterCall(select_required_facets(
                   rng, context_domains,
                   compute_symptom_severity(depression_profile)),
               writer)

----------------------------------------------------------------------------
(* Agent id, session_runner.py 549-579 *)

\* the symptom names as Python's string comparison orders them
SortedSymptoms ==
    [i \in 1..9 |->
        DSM5_DEPRESSION_SYMPTOMS[<< 1, 8, 6, 7, 2, 5, 9, 3, 4 >>[i]]]

\* the modifiers of the templates as Python's string comparison orders them
SortedModifiers ==
    << "blame-externalizing", "body-complaint-oriented",
       "conflict-avoidant", "defensively-hostile", "disorganized",
       "duty-focused", "emotionally-reactive", "existentially-focused",
       "failure-intolerant", "forgetful", "guilt-prone", "insight-limited",
       "interpersonally-strained", "introspective", "irritable",
       "isolating", "literal-thinking", "low-initiative",
       "meaning-seeking", "metaphorically-expressive",
       "mood-distress-denying", "over-responsible-for-others",
       "overwork-prone", "passive", "people-pleasing", "perfectionistic",
       "philosophically-ruminating", "pleasure-unresponsive",
       "rejection-sensitive", "rigidly-self-critical", "ruminative",
       "self-blaming", "self-care-neglecting", "self-sacrificing",
       "socially-withdrawn", "somatically-focused", "task-avoidant",
       "threat-sensitivity", "unmotivated", "worry-prone" >>

\* capitals come before small letters
StringOrder == SortedSymptoms \o SortedModifiers

\* a < b on strings
StrLess(a, b) ==
    LET rank(x) == CHOOSE i \in 1..Len(StringOrder) : StringOrder[i] = x
    IN  rank(a) < rank(b)

RECURSIVE InsertSorted(_, _)
InsertSorted(s, x) ==
    IF s = << >> THEN << x >>
    ELSE IF StrLess(x, Head(s)) THEN << x >> \o s
    ELSE << Head(s) >> \o InsertSorted(Tail(s), x)

RECURSIVE SortInto(_, _)
SortInto(acc, seq) ==
    IF seq = << >> THEN acc
    ELSE SortInto(InsertSorted(acc, Head(seq)), Tail(seq))

\* the list left in the order it came in
sorted_AsListed(seq) == seq

\* sorted(seq)
sorted(seq) == SortInto(<< >>, seq)

\* sep.join(parts)
RECURSIVE Join(_, _)
Join(sep, parts) ==
    IF parts = << >> THEN ""
    ELSE IF Len(parts) = 1 THEN parts[1]
    ELSE parts[1] \o sep \o Join(sep, Tail(parts))

\* a dict: its keys in insertion order and the value at each key
Dict(keys, at) == [keys |-> keys, at |-> at]

\* lines 573-574: one part per symptom
SymptomParts(symptoms, depression_profile) ==
    [i \in 1..Len(symptoms) |->
        symptoms[i] \o "=" \o depression_profile.at[symptoms[i]]]

\* lines 551-576
profile_key(template_id, personality, persona_id, doctor_microstyle, depression_profile) ==
    LET voice_style == Get(personality, "VOICE_STYLE", EmptyObject)
        modifiers   == Get(personality, "MODIFIERS", << >>)
        profile_key_parts ==
            << "TEMPLATE=" \o template_id,
               "P_PACING=" \o Get(personality, "PACING", "MED"),
               "DENSITY=" \o Get(personality, "EPISODE_DENSITY", "MED"),
               "AGE=" \o Get(personality, "AGE_RANGE", ""),
               "TRUST=" \o Get(voice_style, "trust", "neutral"),
               "VERBOSITY=" \o Get(voice_style, "verbosity", "moderate"),
               "EXPRESSIVENESS=" \o Get(voice_style, "expressiveness", "balanced"),
               "INTELLECT=" \o Get(voice_style, "intellect", "average"),
               "P_HUMOR=" \o Get(voice_style, "humor", "none"),
               "MODS=" \o Join(",", sorted(modifiers)),
               "PERSONA=" \o persona_id,
               "D_WARMTH=" \o Get(doctor_microstyle, "warmth", "med"),
               "D_DIRECT=" \o Get(doctor_microstyle, "directness", "med"),
               "D_PACING=" \o Get(doctor_microstyle, "pacing", "med"),
               "D_HUMOR=" \o Get(doctor_microstyle, "humor", "none"),
               "D_ANIMATION=" \o Get(doctor_microstyle, "animation", "med") >>
    IN  Join("|", profile_key_parts
                      \o SymptomParts(sorted(depression_profile.keys),
                                      depression_profile))

\* lines 577-579: the digest is a function of the text alone; collisions of
\* its 16 hexadecimal digits are not modelled
agent_id(profile_key_text) ==
    [prefix |-> "AGENT_", sha256_hexdigest_16_of |-> profile_key_text]

\* the fields of a session that the agent id is computed from
AgentSession(template_id, personality, depression_profile, persona_id, doctor_microstyle) ==
    [template_id        |-> template_id,
     personality        |-> personality,
     depression_profile |-> depression_profile,
     doctor_persona_id  |-> persona_id,
     doctor_microstyle  |-> doctor_microstyle]

KeyOf(s) ==
    profile_key(s.template_id, s.personality, s.doctor_persona_id,
                s.doctor_microstyle, s.depression_profile)

\* doctor_personas.py 99-105
MICROSTYLE_OPTIONS(dim) ==
    CASE dim = "warmth"     -> << "low", "med", "high" >>
      [] dim = "directness" -> << "low", "med", "high" >>
      [] dim = "pacing"     -> << "slow", "med", "brisk" >>
      [] dim = "humor"      -> << "none", "light", "dry" >>
      [] dim = "animation"  -> << "reserved", "moderate", "animated" >>

\* doctor_personas.py 8-96: the ids of DOCTOR_PERSONAS
DOCTOR_PERSONAS ==
    << "warm_validating", "neutral_efficient", "gentle_brisk",
       "matter_of_fact_kind", "trauma_informed_slow",
       "structured_psychoeducational", "time_pressed_clinical",
       "dismissive_rushed" >>

\* one slider is given the value drawn
DrawnDim(acc, dim, d) == [v |-> Put(acc.v, dim, d.v), rng |-> d.rng]

\* random.choice(MICROSTYLE_OPTIONS[dim])
MicrostyleChoice(acc, dim) ==
    DrawnDim(acc, dim, choice(acc.rng, MICROSTYLE_OPTIONS(dim), "microstyle"))

\* random.choices(MICROSTYLE_OPTIONS[dim], weights=weights, k=1)[0]
MicrostyleChoices(acc, dim, weights) ==
    DrawnDim(acc, dim,
             choices(acc.rng, MICROSTYLE_OPTIONS(dim), weights, "microstyle"))

\* doctor_personas.py 108-135: the function takes no generator, its five
\* draws are made with the generator of the random module
sample_doctor_microstyle(random) ==
    MicrostyleChoices(
        MicrostyleChoices(
            MicrostyleChoice(
                MicrostyleChoice(
                    MicrostyleChoice([v |-> EmptyObject, rng |-> random],
                                     "warmth"),
                    "directness"),
                "pacing"),
            "humor", << 6, 3, 1 >>),
        "animation", << 4, 4, 2 >>)

\* the choices of a session: the profile, the persona, the microstyle and
\* the item that an unparseable decision of the doctor manager falls back
\* to (manager_logic.py 147-156: random.choice(dsm_symptom_keys))
SessionChoices(p, doctor_persona, doctor_microstyle) ==
    [template_id        |-> p.template_id,
     personality        |-> p.personality,
     depression_profile |-> p.depression_profile,
     doctor_persona_id  |-> doctor_persona.v,
     doctor_microstyle  |-> doctor_microstyle.v,
     fallback |-> parse_doctor_manager_output(
                      NotJson, DSM_ITEMS,
                      choice(doctor_microstyle.rng, DSM_ITEMS, "fallback").v)]

\* session_runner.py 513-529: the persona is chosen with the generator that
\* sampled the profile, the microstyle with the random module
AgentChoices(p, random) ==
    SessionChoices(p, choice(p.rng, DOCTOR_PERSONAS, "persona"),
                   sample_doctor_microstyle(random))

\* rng is the injected generator, random the generator of the random
\* module, which no code of the repository seeds
session_choices(rng, random, forced) ==
    AgentChoices(sample_patient_profile(rng, forced, "listed"), random)

\* templates.py 20-25
FREQUENCY_CATEGORIES == << "NONE", "RARE", "SOME", "OFTEN" >>

----------------------------------------------------------------------------
(* Calls of the pure functions of the repository: Init draws the inputs of *)
(* one call and the action of the function applies it.                     *)

session_vars ==
    << pc, pacing, doctor_persona_id, disclosure_state, conversation_history,
       dsm_pool, asked_question_order, doctor_turns_elapsed, iterations,
       manager_type, manager_output, next_action, reason, dsm_symptom_key,
       doctor_instruction, exit_reason, patient_guidance >>

\* the session variables of a state in which no session runs
NoSession ==
    /\ pc = "call"
    /\ pacing = "med"
    /\ doctor_persona_id = "warm_validating"
    /\ disclosure_state = ""
    /\ conversation_history = << >>
    /\ dsm_pool = << >>
    /\ asked_question_order = << >>
    /\ doctor_turns_elapsed = 0
    /\ iterations = 0
    /\ manager_type = ""
    /\ manager_output = NoOutput
    /\ next_action = ""
    /\ reason = ""
    /\ dsm_symptom_key = ""
    /\ doctor_instruction = ""
    /\ exit_reason = ""
    /\ patient_guidance = NoGuidance

\* a guidance object that sets every field
FullGuidanceObject ==
    [directness           |-> "HIGH",
     disclosure_stage     |-> "OPEN",
     target_length        |-> "LONG",
     emotional_state      |-> "tearful",
     tone_tags            |-> << "direct" >>,
     key_points_to_reveal |-> << "full disclosure" >>,
     key_points_to_avoid  |-> << >>,
     patient_instruction  |-> "Be direct and open."]

\* output texts of the patient manager: no text, prose, a JSON list, and
\* objects that set none, one, some or all of the fields
PatientManagerTexts ==
    {<< >>, << Junk >>, << JsonDoc(NonObject) >>,
     << JsonDoc(Object(EmptyObject)) >>,
     << JsonDoc(Object(FullGuidanceObject)) >>,
     << JsonDoc(Object([directness |-> "LOW", target_length |-> "SHORT"])) >>,
     << JsonDoc(Object([emotional_state |-> "frustrated"])) >>}
    \cup {<< JsonDoc(Object([disclosure_stage |-> d])) >> :
              d \in {"MINIMIZE", "OPEN", "FULL"}}

DisclosureStages == {"MINIMIZE", "PARTIAL", "OPEN"}

PatientParserCalls ==
    [fn : {"parse_patient_manager_output"},
     text : PatientManagerTexts,
     trust : TrustLevels,
     verbosity : VerbosityLevels,
     current_disclosure_state : DisclosureStages,
     done : {FALSE}]

\* ids of DOCTOR_PERSONAS
DoctorPersonaIds ==
    {"warm_validating", "neutral_efficient", "gentle_brisk",
     "matter_of_fact_kind", "trauma_informed_slow",
     "structured_psychoeducational", "time_pressed_clinical",
     "dismissive_rushed"}

\* a pacing that PACING_TARGETS does not list
UnknownPacing == "leisurely"

PlannerCalls ==
    [fn : {"plan_turn_budget"},
     pacing : Pacings \cup {UnknownPacing},
     doctor_persona_id : DoctorPersonaIds \cup EXTENDED_PACING_PERSONAS,
     done : {FALSE}]

\* an object with a field for each parser
FencedObject ==
    [next_action |-> "RAPPORT", reason |-> "manager reason",
     doctor_instruction |-> "Ask gently.", disclosure_stage |-> "OPEN",
     name |-> "Alex"]

Pieces ==
    {Fence, WordJson, Ws, Junk, JsonDoc(Object(FencedObject)),
     JsonDoc(NonObject)}

\* the texts of at most MaxPayloadLen pieces
Payloads ==
    UNION {[1..n -> Pieces] : n \in 0..MaxPayloadLen}

Parsers ==
    {"parse_patient_manager_output", "parse_doctor_manager_output",
     "parse_post_dsm_manager_output", "parse_background_writer_output"}

\* the opening line of a fence: with the json tag or bare
Openers == {<< Fence, WordJson, Ws >>, << Fence, Ws >>}

FencedCalls ==
    [fn : {"parse_fenced"}, parser : Parsers, payload : Payloads,
     opener : Openers, done : {FALSE}]

\* the payload on lines of its own between an opening and a closing fence
Fenced(opener, payload) == opener \o payload \o << Ws, Fence >>

\* the parser of that name applied to a text
ParseWith(parser, text) ==
    CASE parser = "parse_patient_manager_output" ->
             parse_patient_manager_output(
                 LoadCleaned(text), "neutral", "moderate", "PARTIAL")
      [] parser = "parse_doctor_manager_output" ->
             parse_doctor_manager_output(
                 LoadCleaned(text), DSM_ITEMS, DSM_ITEMS[1])
      [] parser = "parse_post_dsm_manager_output" ->
             parse_post_dsm_manager_output(LoadCleaned(text))
      [] parser = "parse_background_writer_output" ->
             parse_background_writer_output(LoadCleaned(text))

Seeds == 0..MaxSeed

\* the overrides of a dry run: no life background, and nothing else, the
\* template, the density, or both pinned
ForcedProfiles ==
    {[skip_life_background |-> TRUE],
     [skip_life_background |-> TRUE, template_id |-> "OPENNESS_HIGH"],
     [skip_life_background |-> TRUE, episode_density |-> "ULTRA_LOW"],
     [skip_life_background |-> TRUE, template_id |-> "NEUROTICISM_HIGH",
      episode_density |-> "ULTRA_LOW"],
     [skip_life_background |-> TRUE, template_id |-> "NEUROTICISM_HIGH",
      modifiers |-> << "worry-prone", "ruminative" >>],
     [skip_life_background |-> TRUE, template_id |-> "NEUROTICISM_HIGH",
      extra_elevated |-> << "Depressed mood", "Sleep disturbances" >>],
     [skip_life_background |-> TRUE, pacing |-> "LOW",
      age_range |-> AGE_RANGES[1]],
     [skip_life_background |-> TRUE,
      personal_background |-> [work_role |-> "student"],
      voice_style_partial |-> [trust |-> "guarded"]]}

\* two invocations with generators in the same state and the same
\* overrides, in processes with the given hash orders
SamplerCalls ==
    [fn : {"sample_patient_profile"}, seed : Seeds, forced : ForcedProfiles,
     first_hash_order : HashOrders, second_hash_order : HashOrders,
     done : {FALSE}]

\* the order in which a list or a dict was filled
ListOrders == {"listed", "reversed", "rotated"}

Reordered(seq, order) ==
    IF seq = << >> THEN seq
    ELSE CASE order = "listed"   -> seq
           [] order = "reversed" -> Reverse(seq)
           [] order = "rotated"  -> Tail(seq) \o << Head(seq) >>

\* two of the microstyles that sample_doctor_microstyle can return
Microstyles ==
    {[warmth |-> "med", directness |-> "med", pacing |-> "med",
      humor |-> "none", animation |-> "moderate"],
     [warmth |-> "high", directness |-> "low", pacing |-> "slow",
      humor |-> "light", animation |-> "reserved"]}

\* the session of a sampled profile, lines 500-540
SessionOf(p, persona_id, doctor_microstyle) ==
    AgentSession(p.template_id, p.personality,
                 Dict(DSM5_DEPRESSION_SYMPTOMS, p.depression_profile),
                 persona_id, doctor_microstyle)

SampledSession(seed, forced, persona_id, doctor_microstyle) ==
    SessionOf(sample_patient_profile(Rng(seed), forced, "listed"),
              persona_id, doctor_microstyle)

\* the same field values, the modifiers listed and the symptom map filled
\* in another order
ReorderedSession(s, modifiers_order, insertion_order) ==
    [s EXCEPT !.personality.MODIFIERS = Reordered(@, modifiers_order),
              !.depression_profile.keys = Reordered(@, insertion_order)]

AgentIdCalls ==
    [fn : {"agent_id"}, seed : Seeds, forced : ForcedProfiles,
     persona_id : PersonaIds, doctor_microstyle : Microstyles,
     modifiers_order : ListOrders, insertion_order : ListOrders,
     done : {FALSE}]

\* the sampled fields of a profile and the fields of the doctor's persona
ChangedFields ==
    {"template", "pacing", "density", "age_range", "trust", "verbosity",
     "expressiveness", "intellect", "humor", "modifiers", "context_domains",
     "personal_background", "emph_intensity", "extra_elevated", "frequency",
     "persona", "warmth", "directness", "doctor_pacing", "doctor_humor",
     "animation"}

\* the option after v in a list of options
NextOf(options, v) ==
    LET i == CHOOSE k \in 1..Len(options) : options[k] = v
    IN  options[(i % Len(options)) + 1]

\* the session s with one field given another value, all others equal
Changed(s, field) ==
    LET template == Template(s.template_id)
        non_emphasized ==
            SelectSeq(DSM5_DEPRESSION_SYMPTOMS,
                      LAMBDA x : x \notin Range(template.emphasized_symptoms))
    IN
    CASE field = "template" ->
             [s EXCEPT !.template_id = NextOf(TemplateIds, @)]
      [] field = "pacing" ->
             [s EXCEPT !.personality.PACING = NextOf(PACING_LEVELS, @)]
      [] field = "density" ->
             [s EXCEPT !.personality.EPISODE_DENSITY =
                           NextOf(EPISODE_DENSITY_LEVELS, @)]
      [] field = "age_range" ->
             [s EXCEPT !.personality.AGE_RANGE = NextOf(AGE_RANGES, @)]
      [] field \in {"trust", "verbosity", "expressiveness", "intellect"} ->
             [s EXCEPT !.personality.VOICE_STYLE[field] =
                           NextOf(VOICE_STYLE_OPTIONS(field), @)]
      [] field = "humor" ->
             [s EXCEPT !.personality.VOICE_STYLE.humor =
                           NextOf(PATIENT_HUMOR_LEVELS, @)]
      [] field = "modifiers" ->
             [s EXCEPT !.personality.MODIFIERS =
                           IF @ = << >> THEN << template.modifiers[1] >>
                           ELSE Tail(@)]
      [] field = "context_domains" ->
             [s EXCEPT !.personality.CONTEXT_DOMAINS =
                           IF @ = << >> THEN << GENERIC_CONTEXT_DOMAINS[1] >>
                           ELSE Tail(@)]
      [] field = "personal_background" ->
             [s EXCEPT !.personality.PERSONAL_BACKGROUND =
                           Put(@, "living_situation",
                               NextOf(LIVING_SITUATION_POOL,
                                      Get(@, "living_situation",
                                          LIVING_SITUATION_POOL[1])))]
      [] field = "emph_intensity" ->
             [s EXCEPT !.personality.EMPH_INTENSITY
                           [template.emphasized_symptoms[1]] =
                           NextOf(INTENSITY_LEVELS, @)]
      [] field = "extra_elevated" ->
             [s EXCEPT !.personality.EXTRA_ELEVATED_SYMPTOMS =
                           IF @ = << >> THEN << non_emphasized[1] >>
                           ELSE << >>]
      [] field = "frequency" ->
             [s EXCEPT !.depression_profile.at[DSM5_DEPRESSION_SYMPTOMS[1]] =
                           NextOf(FREQUENCY_CATEGORIES, @)]
      [] field = "persona" ->
             [s EXCEPT !.doctor_persona_id =
                           CHOOSE other \in DoctorPersonaIds : other # @]
      [] field \in {"warmth", "directness", "animation"} ->
             [s EXCEPT !.doctor_microstyle[field] =
                           NextOf(MICROSTYLE_OPTIONS(field), @)]
      [] field = "doctor_pacing" ->
             [s EXCEPT !.doctor_microstyle.pacing =
                           NextOf(MICROSTYLE_OPTIONS("pacing"), @)]
      [] field = "doctor_humor" ->
             [s EXCEPT !.doctor_microstyle.humor =
                           NextOf(MICROSTYLE_OPTIONS("humor"), @)]

ProfileKeyCalls ==
    [fn : {"profile_key"}, seed : Seeds, forced : ForcedProfiles,
     field : ChangedFields, done : {FALSE}]

\* a profile is sampled and its life background is written
BackgroundCalls ==
    [fn : {"call_background_writer"}, seed : Seeds, forced : ForcedProfiles,
     writer : Writers, done : {FALSE}]

\* the symptoms of the catalogue that the template does not emphasize
NonEmphasized(template_id) ==
    SelectSeq(DSM5_DEPRESSION_SYMPTOMS,
              LAMBDA x : x \notin Range(Template(template_id).emphasized_symptoms))

\* an emph_intensity with every level: LOW, MED, HIGH, LOW in the order of
\* the emphasized symptoms
IntensityInTurn(emphasized_symptoms) ==
    [x \in Range(emphasized_symptoms) |->
        INTENSITY_LEVELS[
            (((CHOOSE i \in 1..Len(emphasized_symptoms) :
                   emphasized_symptoms[i] = x) - 1) % Len(INTENSITY_LEVELS)) + 1]]

\* extra_high: nothing, one symptom that is not emphasized (lines 280-284
\* of sample_patient_profile), one that is (a forced "extra_elevated")
ExtraHighInputs(template_id) ==
    {<< >>, << Head(NonEmphasized(template_id)) >>,
     << Head(Template(template_id).emphasized_symptoms) >>}

\* an emph_intensity with the same level for every emphasized symptom
IntensityOf(emphasized_symptoms, level) ==
    [x \in Range(emphasized_symptoms) |-> level]

\* the inputs of generate_depression_profile other than the density, for
\* each of the 8 templates
ExpectedCallsOf(template_id) ==
    [fn : {"expected_non_none"}, template_id : {template_id},
     emph_intensity :
         {IntensityOf(Template(template_id).emphasized_symptoms, level) :
              level \in Range(INTENSITY_LEVELS)}
         \cup {IntensityInTurn(Template(template_id).emphasized_symptoms)},
     extra_high : ExtraHighInputs(template_id), done : {FALSE}]

ExpectedCalls == UNION {ExpectedCallsOf(t) : t \in Range(TemplateIds)}

\* two runs with the same seed of the injected generator; the random
\* module of each process is in a state of its own
ChoicesCalls ==
    [fn : {"session_choices"}, seed : Seeds, forced : ForcedProfiles,
     first_random : Seeds, second_random : Seeds, done : {FALSE}]

\* a VOICE_STYLE with any of trust and verbosity; "wary" and "rambling" are
\* values that are no level
VoiceStyleInputs ==
    {[k \in K |-> full[k]] :
         full \in [trust : TrustLevels \cup {"wary"},
                   verbosity : VerbosityLevels \cup {"rambling"}],
         K \in SUBSET {"trust", "verbosity"}}

\* session_runner.py 359: a personality with or without VOICE_STYLE
DisclosureCalls ==
    [fn : {"init_disclosure_state"},
     personality : {[VOICE_STYLE |-> vs] : vs \in VoiceStyleInputs}
                       \cup {EmptyObject},
     done : {FALSE}]

PendingCalls ==
    PatientParserCalls \cup PlannerCalls \cup FencedCalls \cup SamplerCalls
        \cup AgentIdCalls \cup ProfileKeyCalls \cup BackgroundCalls
        \cup ChoicesCalls \cup ExpectedCalls \cup DisclosureCalls

InitCalls ==
    /\ NoSession
    /\ call \in PendingCalls

\* the result of a call joined to its inputs
Returned(c, result) ==
    [k \in DOMAIN c \cup {"result"} |->
        IF k = "result" THEN result ELSE IF k = "done" THEN TRUE ELSE c[k]]

\* manager_logic.py 307-397, from the output text
Call_parse_patient_manager_output ==
    /\ call.fn = "parse_patient_manager_output"
    /\ ~call.done
    /\ call' = Returned(call,
                   parse_patient_manager_output(
                       LoadCleaned(call.text), call.trust, call.verbosity,
                       call.current_disclosure_state))
    /\ UNCHANGED session_vars

\* session_runner.py 626-641
Call_plan_turn_budget ==
    /\ call.fn = "plan_turn_budget"
    /\ ~call.done
    /\ call' = Returned(call,
                   [target_turns_per_symptom |->
                        target_turns_per_symptom(call.pacing,
                                                 call.doctor_persona_id),
                    dsm_turn_budget |->
                        DsmTurnBudget(call.pacing, call.doctor_persona_id),
                    max_doctor_turns |->
                        MaxDoctorTurns(call.pacing, call.doctor_persona_id)])
    /\ UNCHANGED session_vars

\* a parser applied to a payload and to the payload in a fence
Call_parse_fenced ==
    /\ call.fn = "parse_fenced"
    /\ ~call.done
    /\ call' = Returned(call,
                   [plain  |-> ParseWith(call.parser, call.payload),
                    fenced |-> ParseWith(call.parser,
                                         Fenced(call.opener, call.payload))])
    /\ UNCHANGED session_vars

\* profile_generation.py 143-316, invoked twice
Call_sample_patient_profile ==
    /\ call.fn = "sample_patient_profile"
    /\ ~call.done
    /\ call' = Returned(call,
                   [first  |-> sample_patient_profile(
                                   Rng(call.seed), call.forced,
                                   call.first_hash_order),
                    second |-> sample_patient_profile(
                                   Rng(call.seed), call.forced,
                                   call.second_hash_order)])
    /\ UNCHANGED session_vars

\* the sessions s and r and their agent ids
TwoAgentIds(s, r) ==
    [first_session  |-> s,
     second_session |-> r,
     first  |-> agent_id(KeyOf(s)),
     second |-> agent_id(KeyOf(r))]

AgentIds(s, modifiers_order, insertion_order) ==
    TwoAgentIds(s, ReorderedSession(s, modifiers_order, insertion_order))

\* the sessions s and c and their keys
TwoProfileKeys(s, c) ==
    [first_session  |-> s,
     second_session |-> c,
     first  |-> KeyOf(s),
     second |-> KeyOf(c)]

ProfileKeys(s, field) == TwoProfileKeys(s, Changed(s, field))

\* the life background of a sampled profile
WrittenFor(p, writer) ==
    call_background_writer(p.rng, p.depression_profile,
                           p.personality.CONTEXT_DOMAINS, writer)

\* session_runner.py 549-579, for a session and for the same session
\* built in another order
Call_agent_id ==
    /\ call.fn = "agent_id"
    /\ ~call.done
    /\ call' = Returned(call,
                   AgentIds(SampledSession(call.seed, call.forced,
                                           call.persona_id,
                                           call.doctor_microstyle),
                            call.modifiers_order, call.insertion_order))
    /\ UNCHANGED session_vars

\* session_runner.py 551-576, for a session and for the same session with
\* one field changed
Call_profile_key ==
    /\ call.fn = "profile_key"
    /\ ~call.done
    /\ call' = Returned(call,
                   ProfileKeys(SampledSession(
                                   call.seed, call.forced, "warm_validating",
                                   CHOOSE m \in Microstyles : m.warmth = "med"),
                               call.field))
    /\ UNCHANGED session_vars

\* profile_generation.py 289-307 and background_writer.py 313-412
Call_call_background_writer ==
    /\ call.fn = "call_background_writer"
    /\ ~call.done
    /\ call' = Returned(call,
                   WrittenFor(sample_patient_profile(Rng(call.seed),
                                                     call.forced, "listed"),
                              call.writer))
    /\ UNCHANGED session_vars

\* session_runner.py 513-529 and manager_logic.py 147-156, in two runs
Call_session_choices ==
    /\ call.fn = "session_choices"
    /\ ~call.done
    /\ call' = Returned(call,
                   [first  |-> session_choices(Rng(call.seed),
                                               Rng(call.first_random),
                                               call.forced),
                    second |-> session_choices(Rng(call.seed),
                                               Rng(call.second_random),
                                               call.forced)])
    /\ UNCHANGED session_vars

\* profile_generation.py 58-138: the expected number of symptoms other than
\* NONE for each density, the other inputs being the same
Call_expected_non_none ==
    /\ call.fn = "expected_non_none"
    /\ ~call.done
    /\ call' = Returned(call,
                   [d \in Range(EPISODE_DENSITY_LEVELS) |->
                       ExpectedNonNone(Template(call.template_id), d,
                                       call.emph_intensity, call.extra_high)])
    /\ UNCHANGED session_vars

\* session_runner.py 359-385, lines 374-376: the values read with defaults
Call_init_disclosure_state ==
    /\ call.fn = "init_disclosure_state"
    /\ ~call.done
    /\ call' = Returned(call,
                   init_disclosure_state(
                       Get(Get(call.personality, "VOICE_STYLE", EmptyObject),
                           "trust", "neutral"),
                       Get(Get(call.personality, "VOICE_STYLE", EmptyObject),
                           "verbosity", "moderate")))
    /\ UNCHANGED session_vars

NextCalls ==
    \/ Call_parse_patient_manager_output
    \/ Call_plan_turn_budget
    \/ Call_parse_fenced
    \/ Call_sample_patient_profile
    \/ Call_agent_id
    \/ Call_profile_key
    \/ Call_call_background_writer
    \/ Call_session_choices
    \/ Call_expected_non_none
    \/ Call_init_disclosure_state

SpecCalls == InitCalls /\ [][NextCalls]_vars

----------------------------------------------------------------------------
(* The functions that draw in a loop, one draw a step and with every       *)
(* outcome of the draw.                                                    *)

\* The loop of select_required_facets reads a candidate in two tests only:
\* is it in selected, is it a trauma category.  The outcomes of one weighted
\* draw are therefore a category selected before, the first category of
\* the pool not yet selected, and the first trauma category not yet
\* selected; every category has a positive weight.
DrawOutcomes(selected) ==
    {selected[i] : i \in {Len(selected)} \ {0}}
        \cup {Head(fresh) : fresh \in
                 {Unrequired(SelectSeq(LIFE_FACET_CATEGORIES,
                                       LAMBDA c : c \notin
                                           Range(TRAUMA_ADVERSITY_FACETS)),
                             selected),
                  Unrequired(TRAUMA_ADVERSITY_FACETS, selected)} \ {<< >>}}

\* background_writer.py 146-155: num_facets is one of randint(5, 8)
SelectCalls ==
    [fn : {"select_required_facets"}, num_facets : 5..8,
     acc : {[selected |-> << >>, trauma_in_required |-> 0, attempts |-> 0,
             rng |-> Rng(0)]},
     done : {FALSE}]

\* lines 158-171: one pass of the loop
Select_attempt ==
    /\ call.fn = "select_required_facets"
    /\ ~call.done
    /\ Selecting(call.acc, call.num_facets)
    /\ \E candidate \in DrawOutcomes(call.acc.selected) :
           call' = [call EXCEPT !.acc =
                       Considered(@, [v |-> candidate, rng |-> @.rng])]
    /\ UNCHANGED session_vars

\* line 173
Select_return ==
    /\ call.fn = "select_required_facets"
    /\ ~call.done
    /\ ~Selecting(call.acc, call.num_facets)
    /\ call' = Returned(call, call.acc.selected)
    /\ UNCHANGED session_vars

\* the values a weighted choice can give
Support(w) ==
    {w.population[i] : i \in {j \in 1..Len(w.weights) : w.weights[j] > 0}}

\* the values rng.sample(population, k) can give: the sequences of k
\* elements at distinct positions
RECURSIVE SampleOutcomes(_, _)
SampleOutcomes(population, k) ==
    IF k = 0 THEN {<< >>}
    ELSE UNION {{<< population[i] >> \o rest :
                    rest \in SampleOutcomes(RemoveAt(population, i), k - 1)} :
                i \in 1..Len(population)}

DrawnTemplates == {TemplateIds[i] : i \in 1..MaxTemplate}

\* profile_generation.py 27-56: the inputs of generate_depression_profile
GenerateCallsOf(template_id) ==
    [fn : {"generate_depression_profile"}, template_id : {template_id},
     episode_density : Range(EPISODE_DENSITY_LEVELS),
     emph_intensity :
         {IntensityInTurn(Template(template_id).emphasized_symptoms)},
     extra_high : ExtraHighInputs(template_id),
     pc : {"start"}, target_symptom_count : {0}, todo : {<< >>},
     depression_profile : {EmptyObject}, done : {FALSE}]

GenerateCalls == UNION {GenerateCallsOf(t) : t \in DrawnTemplates}

InitDraws ==
    /\ NoSession
    /\ call \in SelectCalls \cup GenerateCalls

\* lines 59-61: ULTRA_LOW, the target count is one of 0, 1, 2
Generate_target ==
    /\ call.fn = "generate_depression_profile"
    /\ call.pc = "start"
    /\ call.episode_density = "ULTRA_LOW"
    /\ \E k \in Range(<< 0, 1, 2 >>) :
           call' = [call EXCEPT !.pc = "sample", !.target_symptom_count = k]
    /\ UNCHANGED session_vars

\* the sample of lines 72-75 out of the pool of lines 64-69
SelectedOutcomes(emphasized_symptoms, non_emphasized, target_symptom_count) ==
    IF target_symptom_count > 0
    THEN SampleOutcomes(
             CandidatePool(emphasized_symptoms, non_emphasized,
                           target_symptom_count),
             Min(target_symptom_count,
                 Len(CandidatePool(emphasized_symptoms, non_emphasized,
                                   target_symptom_count))))
    ELSE {<< >>}

\* lines 63-79: the symptoms are sampled and every symptom is set to NONE
Generate_sample ==
    /\ call.fn = "generate_depression_profile"
    /\ call.pc = "sample"
    /\ \E selected_symptoms \in
               SelectedOutcomes(Template(call.template_id).emphasized_symptoms,
                                NonEmphasized(call.template_id),
                                call.target_symptom_count) :
           call' = [call EXCEPT !.pc = "assign_selected",
                                !.todo = selected_symptoms,
                                !.depression_profile = AllNone]
    /\ UNCHANGED session_vars

\* lines 81-101: one pass of the loop over selected_symptoms
Generate_assign_selected ==
    /\ call.fn = "generate_depression_profile"
    /\ call.pc = "assign_selected"
    /\ call.todo # << >>
    /\ \E f \in Support(UltraLowWeights(
                         Head(call.todo),
                         Range(Template(call.template_id).emphasized_symptoms),
                         call.emph_intensity)) :
           call' = [call EXCEPT !.todo = Tail(@),
                                !.depression_profile =
                                    Put(@, Head(call.todo), f)]
    /\ UNCHANGED session_vars

\* lines 102-113: a standard density, the loop starts
Generate_standard ==
    /\ call.fn = "generate_depression_profile"
    /\ call.pc = "start"
    /\ call.episode_density # "ULTRA_LOW"
    /\ call' = [call EXCEPT !.pc = "assign_all",
                            !.todo = DSM5_DEPRESSION_SYMPTOMS]
    /\ UNCHANGED session_vars

\* lines 113-138: one pass of the loop over DSM5_DEPRESSION_SYMPTOMS
Generate_assign_all ==
    /\ call.fn = "generate_depression_profile"
    /\ call.pc = "assign_all"
    /\ call.todo # << >>
    /\ \E f \in Support(StandardWeights(
                         Head(call.todo),
                         Range(Template(call.template_id).emphasized_symptoms),
                         call.emph_intensity, call.extra_high,
                         call.episode_density)) :
           call' = [call EXCEPT !.todo = Tail(@),
                                !.depression_profile =
                                    Put(@, Head(call.todo), f)]
    /\ UNCHANGED session_vars

\* line 140
Generate_return ==
    /\ call.fn = "generate_depression_profile"
    /\ call.pc \in {"assign_selected", "assign_all"}
    /\ call.todo = << >>
    /\ call' = Returned([call EXCEPT !.pc = "done"], call.depression_profile)
    /\ UNCHANGED session_vars

NextDraws ==
    \/ Select_attempt
    \/ Select_return
    \/ Generate_target
    \/ Generate_sample
    \/ Generate_assign_selected
    \/ Generate_standard
    \/ Generate_assign_all
    \/ Generate_return

SpecDraws == InitDraws /\ [][NextDraws]_vars

----------------------------------------------------------------------------
(* main, cli.py 35-350, and the end of run_patient_doctor_session,         *)
(* session_runner.py 1385-1438.  The record of the run holds the arguments, *)
(* the position in main, the services called and one entry per session     *)
(* started.  A dialogue and a file write end well or raise.                *)

\* cli.py 151-174: forced_overrides, as far as --forced-template fills it
forced_overrides(forced_template) ==
    IF forced_template = "" THEN EmptyObject
    ELSE [template_id |-> forced_template]

\* profile_generation.py 171-176: BIG5_DEP_TEMPLATES[template_id] raises
\* KeyError for a forced template that is not a key
SamplingRaises(forced) ==
    Has(forced, "template_id") /\ forced.template_id \notin Range(TemplateIds)

\* profile_generation.py 295: the background writer is called
WritesBackground(forced) ==
    ~Has(forced, "skip_life_background") \/ ~forced.skip_life_background

\* profile_generation.py 293-307: the services that sampling a profile calls
SamplingCalls(forced) ==
    IF WritesBackground(forced) THEN {"background_writer"} ELSE {}

\* the arguments: a mode, a key in the environment, a count, a forced
\* template (none, a key of BIG5_DEP_TEMPLATES, another word), a forced
\* persona
MainCalls ==
    [fn : {"main"},
     mode : {"generate", "test_profile", "test_patient_manager"},
     api_key : BOOLEAN,
     num_sessions : 1..MaxSessions,
     forced_template : {"", "NEUROTICISM_HIGH", "NEUROTICISM"},
     forced_persona : {"", "warm_validating"},
     pc : {"start"}, i : {0}, llm_calls : {{}}, sessions : {<< >>},
     session_data : {0}, exit : {""}]

InitMain ==
    /\ NoSession
    /\ call \in MainCalls

\* the entry of the session under way
Session(c) == c.sessions[Len(c.sessions)]

\* the entry of the session under way changed at field k
SessionWith(c, k, v) ==
    [c.sessions EXCEPT ![Len(c.sessions)] = Put(@, k, v)]

\* cli.py 129-186: the arguments are read; --test-profile samples a
\* profile, prints it and returns
Main_start ==
    /\ call.fn = "main"
    /\ call.pc = "start"
    /\ call' =
           IF call.mode # "test_profile"
           THEN [call EXCEPT !.pc = "api_key"]
           ELSE IF SamplingRaises(forced_overrides(call.forced_template))
           THEN [call EXCEPT !.pc = "done", !.exit = "raised"]
           ELSE [call EXCEPT !.pc = "done", !.exit = "returned",
                             !.llm_calls = @ \cup SamplingCalls(
                                 forced_overrides(call.forced_template))]
    /\ UNCHANGED session_vars

\* cli.py 188-194
Main_api_key ==
    /\ call.fn = "main"
    /\ call.pc = "api_key"
    /\ call' =
           IF ~call.api_key
           THEN [call EXCEPT !.pc = "done", !.exit = "returned"]
           ELSE IF call.mode = "test_patient_manager"
           THEN [call EXCEPT !.pc = "test_patient_manager"]
           ELSE [call EXCEPT !.pc = "loop"]
    /\ UNCHANGED session_vars

\* cli.py 196-291: a profile is sampled, then the patient manager is called
\* in a try block
Main_test_patient_manager ==
    /\ call.fn = "main"
    /\ call.pc = "test_patient_manager"
    /\ call' =
           IF SamplingRaises(forced_overrides(call.forced_template))
           THEN [call EXCEPT !.pc = "done", !.exit = "raised"]
           ELSE [call EXCEPT !.pc = "done", !.exit = "returned",
                             !.llm_calls =
                                 @ \cup SamplingCalls(
                                       forced_overrides(call.forced_template))
                                   \cup {"patient_manager"}]
    /\ UNCHANGED session_vars

\* cli.py 296-297 and 350: the next session starts, or main ends
Main_loop ==
    /\ call.fn = "main"
    /\ call.pc = "loop"
    /\ call' =
           IF call.i < call.num_sessions
           THEN [call EXCEPT
                    !.pc = IF forced_overrides(call.forced_template)
                                  # EmptyObject
                              \/ call.forced_persona # ""
                           THEN "forced_profile" ELSE "run_session",
                    !.sessions = Append(@, [index |-> call.i + 1,
                                            built |-> FALSE, failed |-> "",
                                            returned |-> FALSE,
                                            saved |-> FALSE,
                                            reported |-> FALSE])]
           ELSE [call EXCEPT !.pc = "done", !.exit = "returned"]
    /\ UNCHANGED session_vars

\* cli.py 299-319: the forced profile is sampled before the try block
Main_forced_profile ==
    /\ call.fn = "main"
    /\ call.pc = "forced_profile"
    /\ call' =
           IF SamplingRaises(forced_overrides(call.forced_template))
           THEN [call EXCEPT !.pc = "done", !.exit = "raised",
                             !.sessions = SessionWith(call, "failed",
                                                      "sampling")]
           ELSE [call EXCEPT !.pc = "run_session",
                             !.llm_calls = @ \cup SamplingCalls(
                                 forced_overrides(call.forced_template))]
    /\ UNCHANGED session_vars

\* session_runner.py 513-529 and 623-1349: the services a session calls;
\* without a forced profile the session samples its profile itself
SessionCalls(c) ==
    {"dialogue"} \cup
        IF forced_overrides(c.forced_template) # EmptyObject
           \/ c.forced_persona # ""
        THEN {} ELSE SamplingCalls(EmptyObject)

\* cli.py 330-336 and session_runner.py 475-1383: the dialogue runs to
\* session_data, or a call of it raises
Main_run_session ==
    /\ call.fn = "main"
    /\ call.pc = "run_session"
    /\ \E raised \in BOOLEAN :
           call' =
               IF raised
               THEN [call EXCEPT !.pc = "except",
                                 !.llm_calls = @ \cup SessionCalls(call),
                                 !.sessions = SessionWith(call, "failed",
                                                          "dialogue")]
               ELSE [call EXCEPT !.pc = "prompt_trace",
                                 !.llm_calls = @ \cup SessionCalls(call),
                                 !.sessions = SessionWith(call, "built", TRUE)]
    /\ UNCHANGED session_vars

\* session_runner.py 1385-1396: the prompt traces are written
Session_prompt_trace ==
    /\ call.fn = "main"
    /\ call.pc = "prompt_trace"
    /\ \E raised \in BOOLEAN :
           call' =
               IF raised
               THEN [call EXCEPT !.pc = "except",
                                 !.sessions = SessionWith(call, "failed",
                                                          "prompt_trace")]
               ELSE [call EXCEPT !.pc = "raw_log"]
    /\ UNCHANGED session_vars

\* session_runner.py 1398-1438 and cli.py 331: the raw log is written and
\* session_data is returned to main
Session_raw_log ==
    /\ call.fn = "main"
    /\ call.pc = "raw_log"
    /\ \E raised \in BOOLEAN :
           call' =
               IF raised
               THEN [call EXCEPT !.pc = "except",
                                 !.sessions = SessionWith(call, "failed",
                                                          "raw_log")]
               ELSE [call EXCEPT !.pc = "save_transcript",
                                 !.session_data = Session(call).index,
                                 !.sessions = SessionWith(call, "returned",
                                                          TRUE)]
    /\ UNCHANGED session_vars

\* cli.py 338-343 and utils/io.py 9-37
Main_save_transcript ==
    /\ call.fn = "main"
    /\ call.pc = "save_transcript"
    /\ \E raised \in BOOLEAN :
           call' =
               IF raised
               THEN [call EXCEPT !.pc = "except",
                                 !.sessions = SessionWith(call, "failed",
                                                          "transcript")]
               ELSE [call EXCEPT !.pc = "loop", !.i = @ + 1,
                                 !.sessions = SessionWith(call, "saved", TRUE)]
    /\ UNCHANGED session_vars

\* cli.py 345-348: the error is printed and the loop goes on
Main_except ==
    /\ call.fn = "main"
    /\ call.pc = "except"
    /\ call' = [call EXCEPT !.pc = "loop", !.i = @ + 1,
                            !.sessions = SessionWith(call, "reported", TRUE)]
    /\ UNCHANGED session_vars

NextMain ==
    \/ Main_start
    \/ Main_api_key
    \/ Main_test_patient_manager
    \/ Main_loop
    \/ Main_forced_profile
    \/ Main_run_session
    \/ Session_prompt_trace
    \/ Session_raw_log
    \/ Main_save_transcript
    \/ Main_except

SpecMain == InitMain /\ [][NextMain]_vars

----------------------------------------------------------------------------
(* The records of a session, session_runner.py 681-682 and 1398-1399:      *)
(* doctor_manager_decisions and patient_manager_decisions are written by   *)
(* run_patient_doctor_session and never read by it.  The session of one    *)
(* pacing and persona is followed here with its records, the process being *)
(* the record call.  Of an entry of doctor_manager_decisions the turn is   *)
(* kept, and the dsm_symptom_key when the next_action of the entry is DSM; *)
(* of an entry of patient_manager_decisions the turn is kept.              *)

NoDecisions == [turn |-> << >>, dsm_symptom_key |-> << >>]

\* lines 932-939, 1039-1046, 1152-1159: doctor_manager_decisions.append
StoredDecision(decisions, turn, action, key) ==
    [turn |-> Append(decisions.turn, turn),
     dsm_symptom_key |->
         IF action = "DSM" THEN Append(decisions.dsm_symptom_key, key)
         ELSE decisions.dsm_symptom_key]

\* a guidance stored for the greeting only
StoredGuidance_FirstOnly(decisions, turn) ==
    IF decisions = << >> THEN << [turn |-> turn] >> ELSE decisions

\* lines 769-773 and 1292-1296: patient_manager_decisions.append
StoredGuidance(decisions, turn) == Append(decisions, [turn |-> turn])

\* the recorded keys that are not the item asked in their place
InvalidRecorded(c) ==
    Cardinality({i \in 1..Len(c.doctor_manager_decisions.dsm_symptom_key) :
        \/ i > Len(c.asked_question_order)
        \/ c.doctor_manager_decisions.dsm_symptom_key[i]
               # c.asked_question_order[i]})

\* the keys a manager names: a pending item, or a key that is not pending
\* while fewer than MaxInvalidKeys were recorded
RecordedKeys(c) ==
    PickableKeys(c.dsm_pool, c.asked_question_order)
        \cup (IF InvalidRecorded(c) < MaxInvalidKeys
              THEN {"", UnknownKey} ELSE {})

RecordedManagerOutputs(c) ==
    {NotJson, NonObject}
    \cup {Object([next_action |-> "DSM", reason |-> "manager reason",
                  doctor_instruction |-> "Ask gently.",
                  dsm_symptom_key |-> k]) : k \in RecordedKeys(c)}
    \cup {Object([next_action |-> a, reason |-> "manager reason",
                  doctor_instruction |-> "Ask gently.",
                  dsm_symptom_key |-> ""]) : a \in {"FOLLOW_UP", "END"}}

RecordedPostDsmOutputs(c) ==
    {NotJson, NonObject}
    \cup {Object([next_action |-> a, reason |-> "manager reason",
                  doctor_instruction |-> "Ask gently."]) :
             a \in {"FOLLOW_UP", "END"}
                 \cup (IF InvalidRecorded(c) < MaxInvalidKeys
                       THEN {"DSM"} ELSE {})}

RecordedGuidanceOutputs ==
    {NotJson, NonObject, Object([disclosure_stage |-> "OPEN"])}

\* lines 623-690: the session before the greeting
RecordedSessions ==
    [fn : {"run_patient_doctor_session"}, pc : {"greeting"},
     pacing : {"brisk"}, doctor_persona_id : {"warm_validating"},
     disclosure_state :
         {init_disclosure_state(base_voice_style.trust,
                                base_voice_style.verbosity)},
     conversation_history : {<< >>}, dsm_pool : {DSM_ITEMS},
     asked_question_order : {<< >>}, doctor_turns_elapsed : {0},
     manager_type : {""}, next_action : {""}, dsm_symptom_key : {""},
     doctor_manager_decisions : {NoDecisions},
     patient_manager_decisions : {<< >>}, exit_reason : {""}]

InitRecord ==
    /\ NoSession
    /\ call \in RecordedSessions

\* line 703
Rec_greeting ==
    /\ call.fn = "run_patient_doctor_session"
    /\ call.pc = "greeting"
    /\ call' = [call EXCEPT
                   !.conversation_history =
                       Append(@, Line("assistant", "first_greeting")),
                   !.pc = "first_patient_guidance"]
    /\ UNCHANGED session_vars

\* the session after a guidance step: the parser raised, or disclosure_state
\* is overwritten and the guidance is stored
Guided(c, guidance, to, turn) ==
    IF guidance.raised THEN [c EXCEPT !.pc = "raised"]
    ELSE [c EXCEPT
             !.disclosure_state =
                 OverwriteDisclosure(
                     @, [disclosure_stage |-> guidance.fields.disclosure_stage]),
             !.patient_manager_decisions = StoredGuidance(@, turn),
             !.next_action = "",
             !.pc = to]

\* lines 722-773 and 1218-1296: the guidance step and its record
Rec_guidance(at, to) ==
    /\ call.fn = "run_patient_doctor_session"
    /\ call.pc = at
    /\ \E out \in RecordedGuidanceOutputs :
           call' = Guided(call,
                          parse_patient_manager_output(
                              out, base_voice_style.trust,
                              base_voice_style.verbosity,
                              call.disclosure_state),
                          to,
                          IF at = "first_patient_guidance" THEN 1
                          ELSE call.doctor_turns_elapsed)
    /\ UNCHANGED session_vars

\* lines 791-815 and 1310-1334: the patient reply is appended
Rec_reply(at, to) ==
    /\ call.fn = "run_patient_doctor_session"
    /\ call.pc = at
    /\ call' = [call EXCEPT
                   !.conversation_history =
                       Append(@, Line("user", "patient_reply")),
                   !.pc = to]
    /\ UNCHANGED session_vars

Rec_first_guidance == Rec_guidance("first_patient_guidance", "first_patient_reply")

Rec_first_reply == Rec_reply("first_patient_reply", "loop_head")

\* the session with the mode of the iteration that starts
WithMode(c, mode) ==
    [c EXCEPT !.manager_type = mode,
              !.dsm_symptom_key =
                  IF mode = "forced_dsm_coverage" THEN ForcedKey(c.dsm_pool)
                  ELSE @,
              !.pc = "decision"]

\* lines 827-836, 951, 963, 1050-1066: loop test and mode selection
Rec_loop_head ==
    /\ call.fn = "run_patient_doctor_session"
    /\ call.pc = "loop_head"
    /\ call' =
           IF LoopCondition(call.doctor_turns_elapsed,
                            MaxDoctorTurns(call.pacing, call.doctor_persona_id))
           THEN WithMode(call,
                         SelectMode(call.dsm_pool, call.doctor_turns_elapsed,
                                    MaxDoctorTurns(call.pacing,
                                                   call.doctor_persona_id),
                                    DsmTurnBudget(call.pacing,
                                                  call.doctor_persona_id),
                                    target_turns_per_symptom(
                                        call.pacing, call.doctor_persona_id)))
           ELSE [call EXCEPT !.pc = "close",
                             !.exit_reason = "turns_exhausted"]
    /\ UNCHANGED session_vars

\* the session after a decision d that is stored with the key k
Decided(c, d, action, k) ==
    IF d.raised THEN [c EXCEPT !.pc = "raised"]
    ELSE [c EXCEPT
             !.next_action = action,
             !.doctor_manager_decisions =
                 StoredDecision(@, c.doctor_turns_elapsed + 1, action, k),
             !.pc = "turn_update"]

\* lines 942-947: an END decision closes the visit after it was stored
Closed(c, d) ==
    IF ~d.raised /\ EndsVisit(d.next_action)
    THEN [c EXCEPT
             !.conversation_history =
                 Append(@, Line("assistant", "closing_msg")),
             !.pc = "close",
             !.exit_reason = "END"]
    ELSE c

\* lines 899-947: the POST_DSM decision is stored with an empty key
Rec_post_dsm_decision ==
    /\ call.fn = "run_patient_doctor_session"
    /\ call.pc = "decision"
    /\ call.manager_type = "post_dsm"
    /\ \E out \in RecordedPostDsmOutputs(call) :
           call' = Closed(Decided(call, parse_post_dsm_manager_output(out),
                                  parse_post_dsm_manager_output(out).next_action,
                                  ""),
                          parse_post_dsm_manager_output(out))
    /\ UNCHANGED session_vars

\* lines 1002-1046: the FORCE_DSM decision is stored with the key of line 963
Rec_force_dsm_decision ==
    /\ call.fn = "run_patient_doctor_session"
    /\ call.pc = "decision"
    /\ call.manager_type = "forced_dsm_coverage"
    /\ \E out \in RecordedManagerOutputs(call),
          picked \in PickableKeys(call.dsm_pool, call.asked_question_order) :
           call' = Decided(call,
                           parse_doctor_manager_output(out, call.dsm_pool, picked),
                           ForcedAction(parse_doctor_manager_output(
                                            out, call.dsm_pool, picked)),
                           call.dsm_symptom_key)
    /\ UNCHANGED session_vars

\* the session with the key of the decision d
WithKey(c, d) ==
    IF d.raised THEN c ELSE [c EXCEPT !.dsm_symptom_key = d.dsm_symptom_key]

\* lines 1118-1159: the NORMAL or LOW_TURNS decision is stored with the key
\* the parser returned
Rec_manager_decision ==
    /\ call.fn = "run_patient_doctor_session"
    /\ call.pc = "decision"
    /\ call.manager_type \in {"normal", "low_turns"}
    /\ \E out \in RecordedManagerOutputs(call),
          picked \in PickableKeys(call.dsm_pool, call.asked_question_order) :
           call' = WithKey(
                       Decided(call,
                               parse_doctor_manager_output(out, call.dsm_pool,
                                                           picked),
                               parse_doctor_manager_output(out, call.dsm_pool,
                                                           picked).next_action,
                               parse_doctor_manager_output(out, call.dsm_pool,
                                                           picked).dsm_symptom_key),
                       parse_doctor_manager_output(out, call.dsm_pool, picked))
    /\ UNCHANGED session_vars

\* the session that asks the item k
Asked(c, k) ==
    [c EXCEPT !.dsm_symptom_key = k,
              !.dsm_pool = ListRemove(@, k),
              !.asked_question_order = Append(@, k)]

\* lines 1164-1181: a valid key is asked, an invalid one is replaced by the
\* first pending item
PoolUpdated(c) ==
    IF ~AsksItem(c.next_action) THEN c
    ELSE IF c.dsm_symptom_key \in Range(c.dsm_pool)
    THEN Asked(c, c.dsm_symptom_key)
    ELSE IF c.dsm_pool # << >> THEN Asked(c, FallbackKey(c.dsm_pool))
    ELSE c

\* lines 1161-1187: turn counter and pool update
Rec_turn_update ==
    /\ call.fn = "run_patient_doctor_session"
    /\ call.pc = "turn_update"
    /\ call' = [PoolUpdated(call) EXCEPT
                   !.doctor_turns_elapsed = @ + 1,
                   !.pc = "doctor_reply"]
    /\ UNCHANGED session_vars

\* lines 1189-1217
Rec_doctor_reply ==
    /\ call.fn = "run_patient_doctor_session"
    /\ call.pc = "doctor_reply"
    /\ call' = [call EXCEPT
                   !.conversation_history =
                       Append(@, Line("assistant", "doctor_reply")),
                   !.pc = "patient_guidance"]
    /\ UNCHANGED session_vars

Rec_patient_guidance == Rec_guidance("patient_guidance", "patient_reply")

Rec_patient_reply == Rec_reply("patient_reply", "loop_head")

\* lines 1336-1349 and the record built at 1385-1438
Rec_close ==
    /\ call.fn = "run_patient_doctor_session"
    /\ call.pc = "close"
    /\ call' = [call EXCEPT
                   !.conversation_history =
                       IF PatientSpokeLast(@)
                       THEN Append(@, Line("assistant", "final_msg"))
                       ELSE @,
                   !.pc = "done"]
    /\ UNCHANGED session_vars

NextRecord ==
    \/ Rec_greeting
    \/ Rec_first_guidance
    \/ Rec_first_reply
    \/ Rec_loop_head
    \/ Rec_post_dsm_decision
    \/ Rec_force_dsm_decision
    \/ Rec_manager_decision
    \/ Rec_turn_update
    \/ Rec_doctor_reply
    \/ Rec_patient_guidance
    \/ Rec_patient_reply
    \/ Rec_close

SpecRecord == InitRecord /\ [][NextRecord]_vars

----------------------------------------------------------------------------
(* Properties *)

LoopLeft == pc \in {"close", "done"}

\* number of positions of seq that hold x
Occurrences(seq, x) == Cardinality({n \in 1..Len(seq) : seq[n] = x})

\* C1: whenever the dialogue loop has finished, by turn exhaustion or by
\* END, asked_question_order holds each of the 9 DSM items exactly once,
\* for every pacing and persona and whatever the decision steps returned.
Thm_C1_Coverage ==
    LoopLeft =>
        /\ exit_reason \in {"turns_exhausted", "END"}
        /\ Len(asked_question_order) = 9
        /\ \A i \in 1..Len(DSM_ITEMS) :
               Occurrences(asked_question_order, DSM_ITEMS[i]) = 1

\* a session that ran out of turns after asking an item out of order
Wit_C1_Coverage ==
    /\ pc = "done"
    /\ exit_reason = "turns_exhausted"
    /\ Len(asked_question_order) = 9
    /\ asked_question_order # DSM_ITEMS

\* C2: doctor_turns_elapsed never exceeds the max_doctor_turns of the
\* planner, which is 24 for pacing med and a persona without extended pacing.
Thm_C2_BudgetBound ==
    /\ doctor_turns_elapsed <= max_doctor_turns
    /\ (pacing = "med" /\ doctor_persona_id \notin EXTENDED_PACING_PERSONAS)
           => doctor_turns_elapsed <= 24

\* a med session of a plain persona that used its 24 turns
Wit_C2_BudgetBound ==
    /\ pacing = "med"
    /\ doctor_persona_id = "warm_validating"
    /\ doctor_turns_elapsed = 24
    /\ pc = "done"

\* C3: the loop is left after at most max_doctor_turns iterations and only
\* by the loop test (doctor_turns_elapsed >= max_doctor_turns) or by the END
\* decision of POST_DSM mode.
Cex_C3_Termination ==
    (LoopLeft \/ (pc = "raised" /\ iterations > 0)) =>
        /\ iterations <= max_doctor_turns
        /\ \/ /\ exit_reason = "turns_exhausted"
              /\ doctor_turns_elapsed >= max_doctor_turns
           \/ /\ exit_reason = "END"
              /\ manager_type = "post_dsm"

\* C4: a FORCE_DSM turn that has a decision asks the head of dsm_pool: its
\* action is DSM, and the item removed from the pool and appended to
\* asked_question_order is the item that was first in the pool, whatever
\* action, key or unparseable text the force-DSM manager returned.
Thm_C4_ForceDsm ==
    [][(pc = "turn_update" /\ manager_type = "forced_dsm_coverage") =>
           /\ next_action = "DSM"
           /\ dsm_symptom_key = Head(dsm_pool)
           /\ dsm_pool' = Tail(dsm_pool)
           /\ asked_question_order' =
                  Append(asked_question_order, Head(dsm_pool))
           /\ dsm_symptom_key' = Head(dsm_pool)
           /\ pc' = "doctor_reply"]_vars

\* a forced turn whose manager answered FOLLOW_UP without an instruction
Wit_C4_ForceDsm ==
    /\ pc = "doctor_reply"
    /\ manager_type = "forced_dsm_coverage"
    /\ next_action = "DSM"
    /\ doctor_instruction = "Follow up on what the patient just said."
    /\ dsm_symptom_key = asked_question_order[Len(asked_question_order)]

\* C5: the mode of an iteration is a function of the counters at its head:
\* POST_DSM iff the pool is empty; else FORCE_DSM iff the remaining turns do
\* not exceed the pending items; else LOW_TURNS iff
\* max(0, dsm_turn_budget - doctor_turns_elapsed) / len(dsm_pool) is below
\* target_turns_per_symptom; else NORMAL.
Thm_C5_ModeSelection ==
    pc = "decision" =>
        LET items  == Len(dsm_pool)
            turns  == max_doctor_turns - doctor_turns_elapsed
            spare  == IF dsm_turn_budget > doctor_turns_elapsed
                      THEN dsm_turn_budget - doctor_turns_elapsed ELSE 0
            target == target_turns_per_symptom(pacing, doctor_persona_id)
            \* spare / items < target / 2
            behind == 2 * spare < target * items
        IN  /\ manager_type \in
                   {"post_dsm", "forced_dsm_coverage", "low_turns", "normal"}
            /\ manager_type = "post_dsm" <=> items = 0
            /\ manager_type = "forced_dsm_coverage" <=>
                   (items > 0 /\ turns <= items)
            /\ manager_type = "low_turns" <=>
                   (items > 0 /\ turns > items /\ behind)
            /\ manager_type = "normal" <=>
                   (items > 0 /\ turns > items /\ ~behind)

\* an iteration that runs in LOW_TURNS mode with slack left
Wit_C5_ModeSelection ==
    /\ pc = "decision"
    /\ manager_type = "low_turns"
    /\ max_doctor_turns - doctor_turns_elapsed > Len(dsm_pool) + 1

\* C6: no exception escapes the session: every text a manager returns is
\* turned into a decision built from the defaults.
Cex_C6_NoException == pc # "raised"

\* C7 as stated: an unparseable doctor decision is DSM on a pending item
\* while the pool is non-empty and FOLLOW_UP when it is empty.
Cex_C7_Fallback ==
    manager_output = NotJson =>
        IF dsm_pool # << >>
        THEN next_action = "DSM" /\ dsm_symptom_key \in Range(dsm_pool)
        ELSE next_action = "FOLLOW_UP"

\* C7 as amended: an unparseable doctor decision is DSM on a pending item in
\* NORMAL, LOW_TURNS and FORCE_DSM mode; in POST_DSM mode it is END, which
\* closes the visit.
Thm_C7_Fallback ==
    manager_output = NotJson =>
        IF manager_type = "post_dsm"
        THEN /\ dsm_pool = << >>
             /\ next_action = "END"
             /\ exit_reason = "END"
             /\ LoopLeft
        ELSE /\ pc = "turn_update"
             /\ next_action = "DSM"
             /\ dsm_symptom_key \in Range(dsm_pool)

\* an unparseable POST_DSM decision
Wit_C7_Fallback ==
    /\ manager_output = NotJson
    /\ manager_type = "post_dsm"
    /\ next_action = "END"

\* C8: a DSM turn whose key is not in the non-empty pool asks the first
\* pending item instead: that item leaves the pool, is appended to
\* asked_question_order and is named in the doctor instruction, and the
\* session goes on.
Thm_C8_InvalidKey ==
    [][(/\ pc = "turn_update"
        /\ next_action = "DSM"
        /\ dsm_symptom_key \notin Range(dsm_pool)
        /\ dsm_pool # << >>) =>
           /\ dsm_pool' = Tail(dsm_pool)
           /\ asked_question_order' =
                  Append(asked_question_order, Head(dsm_pool))
           /\ dsm_symptom_key' = Head(dsm_pool)
           /\ doctor_instruction' =
                  "Ask about " \o Head(dsm_pool)
                      \o " in a natural, conversational way."
           /\ pc' = "doctor_reply"]_vars

\* a turn that substituted an item while a later item was already asked
Wit_C8_InvalidKey ==
    /\ pc = "doctor_reply"
    /\ doctor_instruction =
           "Ask about " \o dsm_symptom_key \o " in a natural, conversational way."
    /\ Len(asked_question_order) >= 2
    /\ asked_question_order[Len(asked_question_order)] = dsm_symptom_key
    /\ OutOfOrder(asked_question_order) = 1

\* C9: dsm_pool and asked_question_order change only in the update of a turn
\* whose action is DSM; the step removes exactly one item, appends that item
\* to asked_question_order and adds nothing to the pool.
Thm_C9_PoolShrinks ==
    [][(dsm_pool' # dsm_pool \/ asked_question_order' # asked_question_order) =>
           /\ pc = "turn_update"
           /\ next_action = "DSM"
           /\ doctor_turns_elapsed' = doctor_turns_elapsed + 1
           /\ \E i \in 1..Len(dsm_pool) :
                  /\ dsm_pool' =
                         SubSeq(dsm_pool, 1, i - 1)
                             \o SubSeq(dsm_pool, i + 1, Len(dsm_pool))
                  /\ asked_question_order' =
                         Append(asked_question_order, dsm_pool[i])]_vars

\* a FOLLOW_UP turn that named a pending item and asked nothing
Wit_C9_PoolShrinks ==
    /\ pc = "doctor_reply"
    /\ next_action = "FOLLOW_UP"
    /\ dsm_symptom_key \in Range(dsm_pool)
    /\ doctor_turns_elapsed > Len(asked_question_order)

\* C10: disclosure_state is always one of MINIMIZE, PARTIAL, OPEN.
Cex_C10_DisclosureRange ==
    disclosure_state \in {"MINIMIZE", "PARTIAL", "OPEN"}

GuidancePcs == {"first_patient_guidance", "patient_guidance"}

\* C11: disclosure_state changes only in the patient-guidance steps, where
\* it becomes the disclosure_stage of the guidance of that step; the decision
\* steps, the doctor reply, the pool update and the patient reply leave it
\* (and the guidance) alone, and nothing resets it.
Thm_C11_DisclosureFrame ==
    [][/\ (disclosure_state' # disclosure_state => pc \in GuidancePcs)
       /\ (pc \in GuidancePcs /\ pc' # "raised") =>
              disclosure_state' = patient_guidance'.disclosure_stage
       /\ (pc \notin GuidancePcs => patient_guidance' = patient_guidance)]_vars

\* a guidance step of the loop that left the session at OPEN
Wit_C11_DisclosureFrame ==
    /\ pc = "patient_reply"
    /\ doctor_turns_elapsed >= 2
    /\ patient_guidance.disclosure_stage = "OPEN"
    /\ disclosure_state = "OPEN"

\* C12: parse_patient_manager_output always returns the eight guidance
\* fields; a field is the value of the parsed object when the object has it
\* and its default otherwise, and every field is the default when the text
\* does not parse: directness LOW/HIGH/MED for trust guarded/open/other,
\* target_length SHORT/LONG/MEDIUM for verbosity terse/detailed/other,
\* emotional_state neutral, disclosure_stage the current disclosure state.
Cex_C12_GuidanceDefaults ==
    (call.fn = "parse_patient_manager_output" /\ call.done) =>
        LET loaded == LoadCleaned(call.text)
            expected(f) ==
                IF loaded.kind = "object" /\ f \in DOMAIN loaded.obj
                THEN loaded.obj[f]
                ELSE CASE f = "directness" ->
                              (CASE call.trust = "guarded" -> "LOW"
                                 [] call.trust = "open"    -> "HIGH"
                                 [] OTHER                  -> "MED")
                       [] f = "target_length" ->
                              (CASE call.verbosity = "terse"    -> "SHORT"
                                 [] call.verbosity = "detailed" -> "LONG"
                                 [] OTHER                       -> "MEDIUM")
                       [] f = "emotional_state" -> "neutral"
                       [] f = "disclosure_stage" -> call.current_disclosure_state
                       [] OTHER -> GuidanceDefaults(call.trust, call.verbosity,
                                       call.current_disclosure_state)[f]
        IN  /\ ~call.result.raised
            /\ DOMAIN call.result.fields = GuidanceFields
            /\ \A f \in GuidanceFields : call.result.fields[f] = expected(f)

\* C14: the planner gives target_turns_per_symptom 2.5/2.0/1.5 for pacing
\* slow/med/brisk and 2.0 for an unknown pacing, 0.5 more and at most 3.0
\* for a persona with extended pacing; dsm_turn_budget = ceil(target * 9)
\* and max_doctor_turns = dsm_turn_budget + 5 + 1: 20/24/29 for
\* brisk/med/slow and 24/29/33 for extended personas.  Targets are in halves.
Thm_C14_Planner ==
    (call.fn = "plan_turn_budget" /\ call.done) =>
        LET extended == call.doctor_persona_id \in
                            {"very_warm_chatty", "trauma_informed_slow"}
            base     == CASE call.pacing = "slow"  -> 5
                          [] call.pacing = "med"   -> 4
                          [] call.pacing = "brisk" -> 3
                          [] OTHER                 -> 4
            target   == IF extended
                        THEN (IF base + 1 > 6 THEN 6 ELSE base + 1)
                        ELSE base
            r        == call.result
        IN  /\ r.target_turns_per_symptom = target
            \* ceil(target * 9): the least integer n with 2 * n >= halves * 9
            /\ 2 * r.dsm_turn_budget >= target * 9
            /\ 2 * (r.dsm_turn_budget - 1) < target * 9
            /\ r.max_doctor_turns = r.dsm_turn_budget + 5 + 1
            /\ r.max_doctor_turns =
                   CASE call.pacing = "brisk" /\ ~extended -> 20
                     [] call.pacing = "med"   /\ ~extended -> 24
                     [] call.pacing = "slow"  /\ ~extended -> 29
                     [] call.pacing = "brisk" /\ extended  -> 24
                     [] call.pacing = "med"   /\ extended  -> 29
                     [] call.pacing = "slow"  /\ extended  -> 33
                     [] OTHER -> r.max_doctor_turns

\* the plan of a slow visit of an extended persona: the target is capped
Wit_C14_Planner ==
    /\ call.fn = "plan_turn_budget"
    /\ call.done
    /\ call.pacing = "slow"
    /\ call.doctor_persona_id = "trauma_informed_slow"
    /\ call.result.target_turns_per_symptom = 6
    /\ call.result.max_doctor_turns = 33

\* C13 as stated: for every payload, each of the four parsers gives the
\* same result for the payload in a fence (with or without the json tag)
\* as for the payload itself.
Cex_C13_FenceStripping ==
    (call.fn = "parse_fenced" /\ call.done) =>
        call.result.fenced = call.result.plain

\* C13 as amended: the same, for every payload that does not itself begin
\* or end with a fence marker (every JSON text is such a payload).
Thm_C13_FenceStripping ==
    (/\ call.fn = "parse_fenced"
     /\ call.done
     /\ ~startswith(strip(call.payload), << Fence >>)
     /\ ~endswith_fence(strip(call.payload))) =>
        call.result.fenced = call.result.plain

\* a JSON object in a json fence, parsed by the patient-guidance parser
Wit_C13_FenceStripping ==
    /\ call.fn = "parse_fenced"
    /\ call.done
    /\ call.parser = "parse_patient_manager_output"
    /\ call.opener = << Fence, WordJson, Ws >>
    /\ call.payload = << JsonDoc(Object(FencedObject)) >>
    /\ ~call.result.fenced.raised
    /\ call.result.fenced.fields.disclosure_stage = "OPEN"

\* the number of lines of the history with that content
LinesOf(content) ==
    Cardinality({n \in 1..Len(conversation_history) :
                    conversation_history[n].content = content})

LastLine == conversation_history[Len(conversation_history)]

\* C15: the finalized conversation ends with a doctor line: after turn
\* exhaustion the patient spoke last and exactly one fixed closing line is
\* appended; after END the closing message of END is last and no second
\* closing line is added.
Thm_C15_ClosingLine ==
    pc = "done" =>
        /\ LastLine.role = "assistant"
        /\ exit_reason = "turns_exhausted" =>
               /\ LastLine.content = "final_msg"
               /\ LinesOf("final_msg") = 1
               /\ LinesOf("closing_msg") = 0
               /\ conversation_history[Len(conversation_history) - 1].role = "user"
        /\ exit_reason = "END" =>
               /\ LastLine.content = "closing_msg"
               /\ LinesOf("closing_msg") = 1
               /\ LinesOf("final_msg") = 0

\* a visit that ran out of turns and got the closing line
Wit_C15_ClosingLine ==
    /\ pc = "done"
    /\ exit_reason = "turns_exhausted"
    /\ LastLine = Line("assistant", "final_msg")
    /\ doctor_turns_elapsed = max_doctor_turns

\* C16: when POST_DSM mode selects END, the closing message is appended as
\* a doctor line and the loop ends at once: doctor_turns_elapsed is not
\* incremented, and no doctor reply, patient guidance or patient reply
\* follows (the only step left is the finalization, which adds nothing).
Thm_C16_EndClosesVisit ==
    [][/\ (/\ pc = "decision"
           /\ manager_type = "post_dsm"
           /\ next_action' = "END") =>
              /\ conversation_history' =
                     Append(conversation_history,
                            Line("assistant", "closing_msg"))
              /\ doctor_turns_elapsed' = doctor_turns_elapsed
              /\ pc' = "close"
              /\ exit_reason' = "END"
       /\ exit_reason = "END" =>
              /\ pc = "close"
              /\ pc' = "done"
              /\ conversation_history' = conversation_history
              /\ doctor_turns_elapsed' = doctor_turns_elapsed
              /\ patient_guidance' = patient_guidance
              /\ disclosure_state' = disclosure_state]_vars

\* a visit closed by END before its turns ran out
Wit_C16_EndClosesVisit ==
    /\ pc = "done"
    /\ exit_reason = "END"
    /\ LastLine = Line("assistant", "closing_msg")
    /\ doctor_turns_elapsed < max_doctor_turns
    /\ conversation_history[Len(conversation_history) - 1].role = "user"

\* C17: two invocations of sample_patient_profile with generators in the
\* same state and the same overrides return the same template_id,
\* personality and depression_profile, in one process and across processes
\* (whatever the iteration order of sets).
Cex_C17_SamplerDeterminism ==
    (call.fn = "sample_patient_profile" /\ call.done) =>
        /\ call.result.first.template_id = call.result.second.template_id
        /\ call.result.first.personality = call.result.second.personality
        /\ call.result.first.depression_profile =
               call.result.second.depression_profile

\* C18: two sessions with the same profile, persona and microstyle field
\* values get the same agent_id, whatever the order of the modifiers list
\* and the insertion order of the symptom map.
Thm_C18_AgentIdStability ==
    (call.fn = "agent_id" /\ call.done) =>
        call.result.first = call.result.second

Wit_C18_AgentIdStability ==
    /\ call.fn = "agent_id" /\ call.done
    /\ call.result.first_session.personality.MODIFIERS #
           call.result.second_session.personality.MODIFIERS
    /\ call.result.first_session.depression_profile.keys #
           call.result.second_session.depression_profile.keys
    /\ call.result.first = call.result.second

\* C19: changing any single sampled profile field or any persona or
\* microstyle field, all others equal, changes the key that is hashed into
\* agent_id.
Cex_C19_AgentIdSensitivity ==
    (/\ call.fn = "profile_key" /\ call.done
     /\ call.result.first_session # call.result.second_session) =>
        call.result.first # call.result.second

\* the facets of the category c
FacetsOf(life_facets, c) ==
    {i \in 1..Len(life_facets) : life_facets[i].category = c}

\* the high-salience trauma facets outside the required set
HighTraumaExtras(life_facets, required_facets) ==
    {i \in 1..Len(life_facets) :
        /\ life_facets[i].category \notin Range(required_facets)
        /\ life_facets[i].category \in Range(TRAUMA_ADVERSITY_FACETS)
        /\ life_facets[i].salience = "high"}

\* C20: every life background returned by the background generator has each
\* category of the selected required facets exactly once in life_facets, and
\* at most one extra facet that is high-salience and of a trauma category,
\* whatever the writer call returned.
Cex_C20_FacetCompleteness ==
    (/\ call.fn = "call_background_writer" /\ call.done
     /\ call.result.background.kind = "background") =>
        /\ \A c \in Range(call.result.required_facets) :
               Cardinality(FacetsOf(call.result.background.life_facets, c)) = 1
        /\ Cardinality(HighTraumaExtras(call.result.background.life_facets,
                                        call.result.required_facets)) <= 1

\* the trauma categories of a list of categories
TraumaOf(categories) ==
    {i \in 1..Len(categories) : categories[i] \in Range(TRAUMA_ADVERSITY_FACETS)}

\* C21: select_required_facets returns between 5 and 8 categories, no
\* category twice and at most 2 trauma categories among them, whatever the
\* weighted draws give.
Cex_C21_RequiredFacets ==
    (call.fn = "select_required_facets" /\ call.done) =>
        /\ Len(call.result) \in 5..8
        /\ Cardinality(Range(call.result)) = Len(call.result)
        /\ Cardinality(TraumaOf(call.result)) <= 2

\* background_writer_prompt.py 32-46: the top-level keys of a writer reply
BackgroundKeys ==
    {"name", "age_range", "pronouns", "core_roles", "core_relationships",
     "core_stressor_summary", "life_facets"}

\* the reply is not a JSON object, or it lacks a top-level key
FailsToParse(out) ==
    out.kind # "object" \/ BackgroundKeys \ DOMAIN out.obj # {}

\* C22: when the writer's reply is malformed JSON or lacks a required
\* top-level key, the background generator returns None: no exception and no
\* background built from placeholder values.
Cex_C22_BackgroundNone ==
    (/\ call.fn = "call_background_writer" /\ call.done
     /\ FailsToParse(WriterOutput(call.writer, call.result.required_facets)))
        => call.result.background = BackgroundNone

\* the symptoms of a profile with a frequency other than NONE
NonNone(depression_profile) ==
    {x \in DOMAIN depression_profile : depression_profile[x] # "NONE"}

\* a call of generate_depression_profile has returned
Generated ==
    call.fn = "generate_depression_profile" /\ call.done

\* C23: with density ULTRA_LOW the profile covers the 9 symptoms, exactly k
\* of them are not NONE for the target k in {0, 1, 2}, these k symptoms are
\* emphasized ones when the template has at least k of them, and the
\* extra-elevated symptoms change nothing.
Thm_C23_UltraLow ==
    (Generated /\ call.episode_density = "ULTRA_LOW") =>
        /\ DOMAIN call.result = Range(DSM5_DEPRESSION_SYMPTOMS)
        /\ call.target_symptom_count \in {0, 1, 2}
        /\ Cardinality(NonNone(call.result)) = call.target_symptom_count
        /\ Len(Template(call.template_id).emphasized_symptoms)
               >= call.target_symptom_count
             => NonNone(call.result)
                    \subseteq Range(Template(call.template_id).emphasized_symptoms)
        /\ \A seed \in Seeds :
               generate_depression_profile(
                   Rng(seed), Template(call.template_id), "ULTRA_LOW",
                   call.emph_intensity, call.extra_high, "listed")
               = generate_depression_profile(
                     Rng(seed), Template(call.template_id), "ULTRA_LOW",
                     call.emph_intensity, << >>, "listed")

\* two emphasized symptoms were selected and the extra-elevated symptom,
\* not an emphasized one, is NONE
Wit_C23_UltraLow ==
    /\ Generated
    /\ call.episode_density = "ULTRA_LOW"
    /\ call.target_symptom_count = 2
    /\ Cardinality(NonNone(call.result)) = 2
    /\ call.extra_high = << Head(NonEmphasized(call.template_id)) >>
    /\ call.result[Head(call.extra_high)] = "NONE"

\* C24: with density LOW, MED or HIGH the profile covers the 9 symptoms; an
\* emphasized symptom is RARE, SOME or OFTEN, and SOME or OFTEN when its
\* intensity is HIGH; an extra-elevated symptom that is not emphasized is
\* RARE, SOME or OFTEN; any other symptom is NONE, RARE or SOME.
Thm_C24_StandardDensity ==
    (Generated /\ call.episode_density # "ULTRA_LOW") =>
        /\ DOMAIN call.result = Range(DSM5_DEPRESSION_SYMPTOMS)
        /\ \A x \in DOMAIN call.result :
               IF x \in Range(Template(call.template_id).emphasized_symptoms)
               THEN /\ call.result[x] \in {"RARE", "SOME", "OFTEN"}
                    /\ call.emph_intensity[x] = "HIGH"
                         => call.result[x] \in {"SOME", "OFTEN"}
               ELSE IF x \in Range(call.extra_high)
               THEN call.result[x] \in {"RARE", "SOME", "OFTEN"}
               ELSE call.result[x] \in {"NONE", "RARE", "SOME"}

\* a profile of density HIGH in which the extra-elevated symptom is OFTEN,
\* another symptom is NONE and an emphasized symptom of intensity LOW is
\* RARE
Wit_C24_StandardDensity ==
    /\ Generated
    /\ call.episode_density = "HIGH"
    /\ call.extra_high = << Head(NonEmphasized(call.template_id)) >>
    /\ call.result[Head(call.extra_high)] = "OFTEN"
    /\ \E x \in DOMAIN call.result : call.result[x] = "NONE"
    /\ \E x \in DOMAIN call.emph_intensity :
           call.emph_intensity[x] = "LOW" /\ call.result[x] = "RARE"

\* extra-elevated and emphasized symptoms of a returned profile are
\* disjoint, and at most one symptom is extra-elevated
Disjoint(profile) ==
    /\ Range(profile.personality.EXTRA_ELEVATED_SYMPTOMS)
           \cap Range(Template(profile.template_id).emphasized_symptoms) = {}
    /\ Len(profile.personality.EXTRA_ELEVATED_SYMPTOMS) <= 1

\* C25: in every profile that sample_patient_profile returns, with or
\* without overrides, no extra-elevated symptom is an emphasized symptom of
\* the template and there is at most one extra-elevated symptom.
Cex_C25_Disjointness ==
    (/\ call.fn = "sample_patient_profile" /\ call.done
     /\ ~call.result.first.raised)
        => Disjoint(call.result.first)

\* main has ended, by a return or by an exception
MainEnded == call.fn = "main" /\ call.exit # ""

\* C26: in a run of N sessions main reaches the end of its loop: a failure
\* at any step of session i, sampling its forced profile included, is
\* reported and the sessions after i are started.
Cex_C26_BatchIsolation ==
    (MainEnded /\ call.mode = "generate" /\ call.api_key) =>
        /\ call.exit = "returned"
        /\ Len(call.sessions) = call.num_sessions
        /\ \A k \in 1..Len(call.sessions) :
               call.sessions[k].failed # "" => call.sessions[k].reported

\* C27: a session whose data were built is returned to the caller even when
\* writing the prompt traces, the raw log or the transcript fails.
Cex_C27_WriteFailure ==
    call.fn = "main" =>
        \A k \in 1..Len(call.sessions) :
            (/\ call.sessions[k].built
             /\ call.sessions[k].failed
                    \in {"prompt_trace", "raw_log", "transcript"})
                => call.sessions[k].returned

\* C28: with --test-profile no call of the text-generation service is made
\* between the start of main and its return.
Cex_C28_DryRun ==
    (call.fn = "main" /\ call.mode = "test_profile") => call.llm_calls = {}

\* C29: every random choice of a session (profile, persona, microstyle,
\* fallback item of an unparseable decision) is drawn from the injected
\* generator: two runs with the same seed and the same LLM outputs make the
\* same choices.
Cex_C29_SingleRandomSource ==
    (call.fn = "session_choices" /\ call.done) =>
        call.result.first = call.result.second

\* C30: for each of the 8 templates and the same intensities and
\* extra-elevated symptoms, the expected number of symptoms other than NONE
\* does not decrease along ULTRA_LOW, LOW, MED, HIGH.
Thm_C30_DensityMonotonicity ==
    (call.fn = "expected_non_none" /\ call.done) =>
        \A i \in 1..(Len(EPISODE_DENSITY_LEVELS) - 1) :
            call.result[EPISODE_DENSITY_LEVELS[i]]
                <= call.result[EPISODE_DENSITY_LEVELS[i + 1]]

\* the expected numbers of a template with an extra-elevated symptom: one
\* symptom for ULTRA_LOW, more for each density after it
Wit_C30_DensityMonotonicity ==
    /\ call.fn = "expected_non_none"
    /\ call.done
    /\ call.extra_high = << Head(NonEmphasized(call.template_id)) >>
    /\ call.result["ULTRA_LOW"] = 30
    /\ call.result["ULTRA_LOW"] < call.result["LOW"]
    /\ call.result["LOW"] < call.result["MED"]
    /\ call.result["MED"] < call.result["HIGH"]

\* the steps that may follow one another: after the greeting and after each
\* doctor reply the guidance step, then the patient reply, then the head of
\* the loop; in a turn the decision, the turn update, the doctor reply
ProtocolOrder ==
    {<< "greeting", "first_patient_guidance" >>,
     << "first_patient_guidance", "first_patient_reply" >>,
     << "first_patient_guidance", "raised" >>,
     << "first_patient_reply", "loop_head" >>,
     << "loop_head", "decision" >>, << "loop_head", "close" >>,
     << "decision", "turn_update" >>, << "decision", "close" >>,
     << "decision", "raised" >>,
     << "turn_update", "doctor_reply" >>,
     << "doctor_reply", "patient_guidance" >>,
     << "patient_guidance", "patient_reply" >>,
     << "patient_guidance", "raised" >>,
     << "patient_reply", "loop_head" >>,
     << "close", "done" >>}

\* C31: every step is followed by the next step of the protocol: a doctor
\* message that is answered is followed by one guidance step, which
\* overwrites disclosure_state and appends nothing, then by one patient reply
\* that is appended whatever it is; a loop turn is decision, turn counter
\* and pool update, doctor reply, guidance, patient reply, and the next
\* turn starts only after the patient reply was appended.
Thm_C31_ProtocolOrder ==
    [][/\ << pc, pc' >> \in ProtocolOrder
       /\ pc \in {"first_patient_guidance", "patient_guidance"} =>
              /\ conversation_history' = conversation_history
              /\ conversation_history[Len(conversation_history)].role
                     = "assistant"
              /\ pc' # "raised" =>
                     disclosure_state' = patient_guidance'.disclosure_stage
       /\ pc \in {"first_patient_reply", "patient_reply"} =>
              conversation_history' =
                  Append(conversation_history, Line("user", "patient_reply"))
       /\ pc = "loop_head" =>
              /\ conversation_history[Len(conversation_history)].role = "user"
              /\ conversation_history' = conversation_history
       /\ doctor_turns_elapsed' # doctor_turns_elapsed =>
              /\ pc = "turn_update"
              /\ doctor_turns_elapsed' = doctor_turns_elapsed + 1
       /\ dsm_pool' # dsm_pool => pc = "turn_update"
       /\ pc = "turn_update" =>
              /\ doctor_turns_elapsed' = doctor_turns_elapsed + 1
              /\ conversation_history' = conversation_history
       /\ pc = "doctor_reply" =>
              conversation_history' =
                  Append(conversation_history, Line("assistant", "doctor_reply"))
      ]_vars

\* two loop turns are over and the third is about to start
Wit_C31_ProtocolOrder ==
    /\ pc = "loop_head"
    /\ doctor_turns_elapsed = 2
    /\ Len(conversation_history) = 6
    /\ conversation_history[5].content = "doctor_reply"
    /\ conversation_history[6].role = "user"

\* the value of a key of VOICE_STYLE in the personality of a call, d when
\* the personality has no VOICE_STYLE or the style has no such key
StyleRead(c, k, d) ==
    IF "VOICE_STYLE" \in DOMAIN c.personality
           /\ k \in DOMAIN c.personality["VOICE_STYLE"]
    THEN c.personality["VOICE_STYLE"][k]
    ELSE d

\* C32: init_disclosure_state returns for every trust and verbosity, missing
\* values being neutral and moderate: MINIMIZE when trust is guarded or
\* verbosity is terse, OPEN when trust is open and verbosity is moderate or
\* detailed, PARTIAL in every other case.
Thm_C32_InitDisclosure ==
    (call.fn = "init_disclosure_state" /\ call.done) =>
        /\ (StyleRead(call, "trust", "neutral") = "guarded"
                \/ StyleRead(call, "verbosity", "moderate") = "terse")
               <=> call.result = "MINIMIZE"
        /\ (StyleRead(call, "trust", "neutral") = "open"
                /\ StyleRead(call, "verbosity", "moderate")
                       \in {"moderate", "detailed"})
               <=> call.result = "OPEN"
        /\ call.result \in {"MINIMIZE", "OPEN", "PARTIAL"}

\* an open and terse patient starts at MINIMIZE
Wit_C32_InitDisclosure ==
    /\ call.fn = "init_disclosure_state"
    /\ call.done
    /\ StyleRead(call, "trust", "neutral") = "open"
    /\ StyleRead(call, "verbosity", "moderate") = "terse"
    /\ call.result = "MINIMIZE"

\* what the draws are for, in the order of the fields, and the override
\* that pins each field; nothing pins the frequency profile
DrawOrder ==
    << "template", "modifiers", "pacing", "context_domains",
       "episode_density", "voice_style", "personal_background", "age_range",
       "emph_intensity", "extra_elevated", "frequency" >>

OverrideOf ==
    << "template_id", "modifiers", "pacing", "context_domains",
       "episode_density", "voice_style", "personal_background", "age_range",
       "emph_intensity", "extra_elevated", "" >>

DrawRank(label) == CHOOSE i \in 1..Len(DrawOrder) : DrawOrder[i] = label

\* the draws of a generator are in the order of the fields, and the fields
\* without draws are the pinned ones
InDrawOrder(trace, forced) ==
    /\ \A i \in 1..(Len(trace) - 1) :
           DrawRank(trace[i]) <= DrawRank(trace[i + 1])
    /\ \A j \in 1..Len(DrawOrder) :
           (DrawOrder[j] \in Range(trace)) <=> ~Has(forced, OverrideOf[j])

\* C33: the sampler draws from the injected generator in the order
\* template, modifiers, pacing, context domains, episode density, voice
\* style, personal background, age range, intensities, extra-elevated
\* symptom, frequency profile; an override removes the draws of its field
\* and of no other field, and leaves the order of the others.
Thm_C33_DrawOrder ==
    (call.fn = "sample_patient_profile" /\ call.done) =>
        /\ InDrawOrder(call.result.first.rng.trace, call.forced)
        /\ InDrawOrder(call.result.second.rng.trace, call.forced)

\* a profile with the pacing and the age range pinned: no draw for them,
\* the modifiers drawn before the context domains, the background before
\* the intensities
Wit_C33_DrawOrder ==
    /\ call.fn = "sample_patient_profile"
    /\ call.done
    /\ Has(call.forced, "pacing")
    /\ Has(call.forced, "age_range")
    /\ {"pacing", "age_range"} \cap Range(call.result.first.rng.trace) = {}
    /\ \E i, j, k \in 1..Len(call.result.first.rng.trace) :
           /\ i < j
           /\ j < k
           /\ call.result.first.rng.trace[i] = "modifiers"
           /\ call.result.first.rng.trace[j] = "context_domains"
           /\ call.result.first.rng.trace[k] = "emph_intensity"

\* C35: in every state of a session asked_question_order and dsm_pool
\* partition the 9 DSM items: no item is in both, every item is in one, the
\* lengths add up to 9 (so nothing is asked twice), and dsm_pool is DSM_ITEMS
\* without the asked items, in the order of DSM_ITEMS; also after a POST_DSM
\* decision whose action is DSM.
Thm_C35_Partition ==
    /\ Range(asked_question_order) \cap Range(dsm_pool) = {}
    /\ Range(asked_question_order) \cup Range(dsm_pool) = Range(DSM_ITEMS)
    /\ Len(asked_question_order) + Len(dsm_pool) = NUM_DSM_ITEMS
    /\ dsm_pool = SelectSeq(DSM_ITEMS,
                            LAMBDA x : x \notin Range(asked_question_order))

\* a POST_DSM turn whose decision was DSM went through the turn update,
\* after a session that asked one item out of the order of DSM_ITEMS
Wit_C35_Partition ==
    /\ pc = "doctor_reply"
    /\ manager_type = "post_dsm"
    /\ next_action = "DSM"
    /\ dsm_pool = << >>
    /\ OutOfOrder(asked_question_order) = 1

\* C36: at the head of every loop iteration the turns that remain are at
\* least as many as the items still to ask, for every pacing and persona.
Thm_C36_Slack ==
    pc = "loop_head" =>
        max_doctor_turns - doctor_turns_elapsed >= Len(dsm_pool)

\* the head of an iteration with no slack left: as many turns as items,
\* after turns that asked no item
Wit_C36_Slack ==
    /\ pc = "loop_head"
    /\ iterations > 0
    /\ dsm_pool # << >>
    /\ max_doctor_turns - doctor_turns_elapsed = Len(dsm_pool)
    /\ pacing = "slow"
    /\ doctor_persona_id = "trauma_informed_slow"

LoopPcs ==
    {"loop_head", "decision", "turn_update", "doctor_reply",
     "patient_guidance", "patient_reply"}

\* a step that leaves the loop for the closing line leaves it at the loop
\* test with the turns exhausted, or from a POST_DSM decision
ClosesOnlyFromPostDsm ==
    (pc \in LoopPcs /\ pc' = "close") =>
        \/ /\ pc = "loop_head"
           /\ doctor_turns_elapsed = max_doctor_turns
        \/ /\ pc = "decision"
           /\ manager_type = "post_dsm"
           /\ dsm_pool = << >>

\* the turn update of a NORMAL or LOW_TURNS decision whose action is END or
\* anything else than DSM and FOLLOW_UP: one turn is counted, no item is
\* asked, the directive is the RAPPORT one and the doctor reply comes next
RapportTurn ==
    (/\ pc = "turn_update"
     /\ manager_type \in {"normal", "low_turns"}
     /\ next_action \notin {"DSM", "FOLLOW_UP"}) =>
        /\ pc' = "doctor_reply"
        /\ doctor_turns_elapsed' = doctor_turns_elapsed + 1
        /\ dsm_pool' = dsm_pool
        /\ asked_question_order' = asked_question_order
        /\ DirectiveTag(next_action) = "RAPPORT"

\* C38: the loop is left before the turns are exhausted only from POST_DSM
\* mode, never while items remain; in NORMAL or LOW_TURNS mode an END, or
\* any action other than DSM and FOLLOW_UP, does not end the session: it
\* is a RAPPORT turn that counts one doctor turn and asks no item.
Cex_C38_NoEarlyExit ==
    [][/\ ClosesOnlyFromPostDsm
       /\ RapportTurn
       /\ (pc \in LoopPcs /\ pc' \notin LoopPcs) =>
              \/ pc = "loop_head" /\ doctor_turns_elapsed = max_doctor_turns
              \/ manager_type = "post_dsm"
      ]_vars

\* a session whose record is built (lines 1385-1438)
FinishedRecord ==
    /\ call.fn = "run_patient_doctor_session"
    /\ call.pc = "done"

DecisionsOfTurn(t) ==
    {i \in 1..Len(call.doctor_manager_decisions.turn) :
        call.doctor_manager_decisions.turn[i] = t}

OneDecisionPerTurn ==
    \A t \in 1..call.doctor_turns_elapsed :
        Cardinality(DecisionsOfTurn(t)) = 1

\* C34: in the finished session record, the dsm_symptom_key values of the
\* recorded doctor-manager decisions whose next_action is DSM, in order, are
\* asked_question_order, also in the turns where an invalid key was replaced
\* by the first pending item, and every doctor turn has exactly one recorded
\* decision.
\* The decision is stored at lines 1152-1159 with the key the parser
\* returned, before lines 1164-1181 replace a key that is not pending, and at
\* lines 932-939 with an empty key whatever the action: the stored keys
\* differ from the items asked.
Cex_C34_DecisionTrace ==
    FinishedRecord =>
        /\ call.doctor_manager_decisions.dsm_symptom_key
               = call.asked_question_order
        /\ OneDecisionPerTurn

SpokenBy(history, role) ==
    Cardinality({i \in 1..Len(history) : history[i].role = role})

AppendOnly(before, after) ==
    \/ after = before
    \/ /\ Len(after) = Len(before) + 1
       /\ SubSeq(after, 1, Len(before)) = before

Alternates(history) ==
    /\ history # << >> => history[1] = Line("assistant", "first_greeting")
    /\ \A i \in 1..Len(history) :
           history[i].role = IF i % 2 = 1 THEN "assistant" ELSE "user"

FinalShape(c) ==
    /\ SpokenBy(c.conversation_history, "user") = c.doctor_turns_elapsed + 1
    /\ SpokenBy(c.conversation_history, "assistant")
           = c.doctor_turns_elapsed + 2
    /\ Len(c.patient_manager_decisions)
           = SpokenBy(c.conversation_history, "user")

TranscriptStep ==
    call.fn = "run_patient_doctor_session" =>
        /\ AppendOnly(call.conversation_history, call'.conversation_history)
        /\ Alternates(call'.conversation_history)
        /\ call'.pc = "done" => FinalShape(call')

\* C39: conversation_history is append-only and alternates doctor, patient,
\* doctor, ... starting with the greeting of the persona; in the finished
\* session it holds doctor_turns_elapsed + 1 patient lines and
\* doctor_turns_elapsed + 2 doctor lines (the greeting, one per counted turn,
\* one closing line), and as many patient-guidance decisions are recorded as
\* it has patient lines.
Thm_C39_TranscriptShape == [][TranscriptStep]_vars

\* a session finished by an END decision after the items were all asked and
\* several turns were counted
Wit_C39_TranscriptShape ==
    /\ FinishedRecord
    /\ call.exit_reason = "END"
    /\ call.doctor_turns_elapsed >= Len(DSM_ITEMS)
    /\ Len(call.conversation_history) = 2 * call.doctor_turns_elapsed + 3

====
